---- MODULE Spec2Model ----
(***************************************************************************)
(* A model of advanced-logger: the HTTP batch transport, the memory        *)
(* transport, the localStorage transport and the IndexedDB transport, what *)
(* becomes of a failure inside a transport, the Logger with the global     *)
(* context, and the manager of named Loggers.  Each part is a state        *)
(* machine of its own; the module gives the specifications of each part,   *)
(* and each specification leaves the other parts' variables alone.         *)
(***************************************************************************)
EXTENDS Integers, Sequences, FiniteSets, TLC

(***************************************************************************)
(* Bounds of the model.                                                    *)
(***************************************************************************)
\* log() calls made on the HTTP transport in one behaviour
MaxLog == 3
\* largest batchSize option handed to the HTTP constructor
MaxBatchOpt == 2
\* log() calls made on the memory transport in one behaviour
MaxMemLog == 5
\* log() calls made on the localStorage transport in one behaviour
MaxLSLog == 4
\* largest maxLogs option handed to a transport's constructor
MaxLogsOpt == 3
\* log() calls made on the IndexedDB transport in one behaviour
MaxIdbLog == 3
\* largest maxLogs option handed to the IndexedDB transport's constructor
MaxIdbLogsOpt == 2
\* most Logger objects the program keeps
MaxLoggers == 2
\* longest transports array addTransport fills
MaxTransports == 2
\* most instance() calls between two clearInstances()
MaxCalls == 2
\* most log() calls on the transport whose failures are followed
MaxBoundaryLog == 2
\* longest batch whose request is looked at
MaxWire == 2
\* most rows of the store getLogs reads
MaxRows == 3
\* latest timestamp of a row getLogs reads
MaxStamp == 2
\* most objects of the Context Store and its caller alive at once
MaxHeap == 3
\* most names in the list of a stack
MaxDrivers == 3
\* most stack() calls in one behaviour
MaxStackCalls == 2

(***************************************************************************)
(* Program constants.                                                      *)
(***************************************************************************)
\* http.transport.ts:24   this.batchSize = options.batchSize || 10
DefaultBatchSize == 10
\* memory.transport.ts:15   this.maxLogs = options.maxLogs || 100
MemDefaultMaxLogs == 100
\* LocalStorageTransport constructor   this.maxLogs = options.maxLogs || 100
LSDefaultMaxLogs == 100
\* IndexedDBTransport constructor   this.maxLogs = options.maxLogs || 10000
IdbDefaultMaxLogs == 10000

(***************************************************************************)
(* State.                                                                  *)
(***************************************************************************)
\* HttpTransport
VARIABLES
    isClient,      \* HttpTransport.isClient
    batchSize,     \* HttpTransport.batchSize
    batch,         \* HttpTransport.batch: the buffer of unsent entries
    timer,         \* HttpTransport.timer is set (TRUE) or null (FALSE)
    inflight,      \* the fetch() calls not yet settled, in the order started
    delivered,     \* history: bodies of the requests answered with an ok status
    refused,       \* history: bodies of the requests answered with a failure status
    logged,        \* history: every entry log() was called with, in order
    fresh,         \* history: log() calls since the buffer was empty with no
                   \* send in flight and nothing but log() happened; -1 otherwise
    op,            \* history: the operation that ran last
    settled        \* history: the batchToSend of the request that settled last

httpVars ==
    <<isClient, batchSize, batch, timer, inflight, delivered, refused,
      logged, fresh, op, settled>>

\* MemoryTransport
VARIABLES
    memMaxLogs,    \* MemoryTransport.maxLogs
    memLogs,       \* MemoryTransport.logs
    memCalls,      \* history: the number of log() calls so far
    memSince       \* history: the entries logged since the most recent clear()

memVars == <<memMaxLogs, memLogs, memCalls, memSince>>

\* LocalStorageTransport
VARIABLES
    lsIsClient,    \* LocalStorageTransport.isClient
    lsMaxLogs,     \* LocalStorageTransport.maxLogs
    localStorage,  \* the browser's localStorage, as a function on its keys
    lsCalls,       \* history: the number of log() calls so far
    lsSince,       \* history: the entries logged since the most recent clear()
    lsOp           \* history: the operation that ran last

lsVars == <<lsIsClient, lsMaxLogs, localStorage, lsCalls, lsSince, lsOp>>

\* IndexedDBTransport
VARIABLES
    idbIsClient,   \* IndexedDBTransport.isClient
    idbMaxLogs,    \* IndexedDBTransport.maxLogs
    initialized,   \* IndexedDBTransport.initialized
    queue,         \* IndexedDBTransport.queue
    initPc,        \* where initialize() stands
    queueCopy,     \* initialize(): the entries of queueCopy still to be added
    store,         \* the rows of db.logs: [key, id, timestamp]
    pending,       \* the store calls made and not yet run
    idbClock,      \* the clock's reading at the last log() call
    idbCalls,      \* history: the number of log() calls so far
    cleared,       \* history: clear() was called
    everQueued,    \* history: ids of the entries pushed to queue while opening
    inserted,      \* history: the entries added to the store, in order
    addFailed,     \* history: ids of the entries whose add failed
    trimFailed     \* history: a store call of some trimLogs failed

idbVars ==
    <<idbIsClient, idbMaxLogs, initialized, queue, initPc, queueCopy, store,
      pending, idbClock, idbCalls, cleared, everQueued, inserted, addFailed,
      trimFailed>>

\* Logger and GlobalContext
VARIABLES
    contextData,   \* GlobalContext.contextData
    loggers,       \* the Logger objects, in the order they were created
    arrays,        \* the transports arrays the Loggers refer to
    lgOp,          \* history: the operation that ran last
    lastCall       \* history: what the log call did, if one ran last

loggerVars == <<contextData, loggers, arrays, lgOp, lastCall>>

\* InstanceManager and LoggerManager
VARIABLES
    instances,     \* InstanceManager.instances: the cache, from key to Logger
    objects,       \* the Loggers the factories made since the last clearInstances()
    stacks,        \* LoggerManager.stacks
    mgrCalls,       \* history: the instance() calls since the last clearInstances()
    mgrOp          \* history: the operation that ran last

mgrVars == <<instances, objects, stacks, mgrCalls, mgrOp>>

\* the failures inside a transport
VARIABLES
    bKind,         \* which built-in transport
    bClient,       \* its isClient (typeof window !== "undefined")
    bReady,        \* IndexedDBTransport.initialized
    bQueue,        \* the length of IndexedDBTransport.queue
    bTasks,        \* the async functions started and not yet returned
    bLogs,         \* history: the number of log() calls so far
    bThrown,       \* history: a log() call raised
    bUnhandled,    \* history: a promise was rejected with no handler
    bReported      \* history: a failure was reported with console.error

bndVars ==
    <<bKind, bClient, bReady, bQueue, bTasks, bLogs, bThrown, bUnhandled,
      bReported>>

\* a function or an object of the program taken on its own
VARIABLES
    fnArgs,        \* the arguments of the call; for an object, its state
    fnResult       \* what the call gave: <<>> before it, <<result>> after it

fnVars == <<fnArgs, fnResult>>

vars ==
    <<httpVars, memVars, lsVars, idbVars, loggerVars, mgrVars, bndVars,
      fnVars>>

\* what an operation of one part leaves alone: the other parts
httpOnly == UNCHANGED <<memVars, lsVars, idbVars, loggerVars, mgrVars, bndVars, fnVars>>
memOnly == UNCHANGED <<httpVars, lsVars, idbVars, loggerVars, mgrVars, bndVars, fnVars>>
lsOnly == UNCHANGED <<httpVars, memVars, idbVars, loggerVars, mgrVars, bndVars, fnVars>>
idbOnly == UNCHANGED <<httpVars, memVars, lsVars, loggerVars, mgrVars, bndVars, fnVars>>
loggerOnly == UNCHANGED <<httpVars, memVars, lsVars, idbVars, mgrVars, bndVars, fnVars>>
mgrOnly == UNCHANGED <<httpVars, memVars, lsVars, idbVars, loggerVars, bndVars, fnVars>>
bndOnly ==
    UNCHANGED <<httpVars, memVars, lsVars, idbVars, loggerVars, mgrVars, fnVars>>
fnOnly ==
    UNCHANGED <<httpVars, memVars, lsVars, idbVars, loggerVars, mgrVars, bndVars>>

(***************************************************************************)
(* Log entries and JSON.                                                   *)
(*                                                                         *)
(* An entry is what log() pushes: { level, message, timestamp, metadata,   *)
(* context }.  The model keeps the entry's position in the log order (id)  *)
(* and its metadata, which is either undefined or an object.               *)
(* JSON.stringify drops a key whose value is undefined, JSON.parse gives   *)
(* back an object without that key, and reading the missing key yields     *)
(* undefined again.                                                        *)
(***************************************************************************)
Undefined == "undefined"

Metadata == {Undefined, "obj"}

LogEntry(id, metadata) == [id |-> id, metadata |-> metadata]

\* JSON.stringify of one entry: the text keeps only the defined keys
JSONstringifyEntry(e) ==
    IF e.metadata = Undefined
    THEN [id |-> e.id]
    ELSE [id |-> e.id, metadata |-> e.metadata]

\* JSON.stringify of an array of entries
JSONstringify(entries) ==
    [i \in DOMAIN entries |-> JSONstringifyEntry(entries[i])]

\* JSON.parse of one entry's text, read back as a LogEntry
JSONparseEntry(t) ==
    [id |-> t.id,
     metadata |-> IF "metadata" \in DOMAIN t THEN t.metadata ELSE Undefined]

\* JSON.parse of an array text
JSONparse(text) ==
    [i \in DOMAIN text |-> JSONparseEntry(text[i])]

\* removes the i-th element of a sequence
RemoveAt(s, i) ==
    [k \in 1..(Len(s) - 1) |-> IF k < i THEN s[k] ELSE s[k + 1]]

(***************************************************************************)
(* HTTP transport (http.transport.ts).                                     *)
(***************************************************************************)

\* constructor: options.batchSize || 10 (an absent option and 0 both read as 0)
HttpBatchSize(option) == IF option = 0 THEN DefaultBatchSize ELSE option

\* startTimer: the interval is set only in a client environment
startTimer(client, t) == IF client /\ ~t THEN TRUE ELSE t

HttpInit ==
    /\ isClient \in BOOLEAN
    /\ \E option \in 0..MaxBatchOpt : batchSize = HttpBatchSize(option)
    /\ batch = <<>>
    /\ timer = startTimer(isClient, FALSE)
    /\ inflight = <<>>
    /\ delivered = <<>>
    /\ refused = <<>>
    /\ logged = <<>>
    /\ fresh = 0
    /\ op = "new"
    /\ settled = <<>>

\* sendBatch without its test for an empty buffer
sendBatch_NoEmptyTest(b, requests) ==
    [batch |-> <<>>,
     inflight |-> Append(requests,
                     [batchToSend |-> b, body |-> JSONstringify(b)])]

\* sendBatch up to its await: nothing for an empty buffer; otherwise the buffer
\* is copied, emptied, and fetch() is called with the JSON text of the copy
sendBatch(b, requests) ==
    IF Len(b) = 0
    THEN [batch |-> b, inflight |-> requests]
    ELSE [batch |-> <<>>,
          inflight |-> Append(requests,
                          [batchToSend |-> b, body |-> JSONstringify(b)])]

\* a catch that only reports the error
sendBatchCatch_Report(batchToSend, b) == b

\* sendBatch's catch: the failed batch goes in front of the buffer
sendBatchCatch(batchToSend, b) == batchToSend \o b

\* the test written with > for >=
batchSizeReached_Gt(len, size) == len > size

\* log()'s test "this.batch.length >= this.batchSize"
batchSizeReached(len, size) == len >= size

\* the history variable fresh after an operation other than a plain log()
Fresh(b, requests) == IF Len(b) = 0 /\ Len(requests) = 0 THEN 0 ELSE -1

\* log(level, message, metadata, context)
HttpLogStep ==
    /\ Len(logged) < MaxLog
    /\ \E m \in Metadata :
         LET e == LogEntry(Len(logged) + 1, m)
             pushed == Append(batch, e)
             sent == sendBatch(pushed, inflight)
         IN  /\ logged' = Append(logged, e)
             /\ IF batchSizeReached(Len(pushed), batchSize)
                THEN /\ batch' = sent.batch
                     /\ inflight' = sent.inflight
                     /\ fresh' = -1
                ELSE /\ batch' = pushed
                     /\ inflight' = inflight
                     /\ fresh' = IF fresh >= 0 THEN fresh + 1 ELSE -1
    /\ op' = "log"
    /\ UNCHANGED <<isClient, batchSize, timer, delivered, refused, settled>>

\* the setInterval callback of startTimer
HttpTimerStep ==
    /\ timer
    /\ LET sent == sendBatch(batch, inflight)
       IN  /\ batch' = sent.batch
           /\ inflight' = sent.inflight
           /\ fresh' = Fresh(sent.batch, sent.inflight)
    /\ op' = "timer"
    /\ UNCHANGED <<isClient, batchSize, timer, delivered, refused, logged, settled>>

\* flush()
HttpFlushStep ==
    /\ LET sent == sendBatch(batch, inflight)
       IN  /\ batch' = sent.batch
           /\ inflight' = sent.inflight
           /\ fresh' = Fresh(sent.batch, sent.inflight)
    /\ op' = "flush"
    /\ UNCHANGED <<isClient, batchSize, timer, delivered, refused, logged, settled>>

\* dispose(): stopTimer, then sendBatch
HttpDisposeStep ==
    /\ timer' = FALSE
    /\ LET sent == sendBatch(batch, inflight)
       IN  /\ batch' = sent.batch
           /\ inflight' = sent.inflight
           /\ fresh' = Fresh(sent.batch, sent.inflight)
    /\ op' = "dispose"
    /\ UNCHANGED <<isClient, batchSize, delivered, refused, logged, settled>>

\* a fetch() promise resolves with an ok status: sendBatch returns
HttpResolveOkStep ==
    /\ \E i \in DOMAIN inflight :
         /\ inflight' = RemoveAt(inflight, i)
         /\ delivered' = Append(delivered, inflight[i].body)
         /\ settled' = inflight[i].batchToSend
         /\ fresh' = Fresh(batch, RemoveAt(inflight, i))
    /\ op' = "ok"
    /\ UNCHANGED <<isClient, batchSize, batch, timer, refused, logged>>

\* a fetch() promise resolves with a failure status (such as 500): fetch does
\* not reject, the catch is not entered and sendBatch returns
HttpResolveStatusStep ==
    /\ \E i \in DOMAIN inflight :
         /\ inflight' = RemoveAt(inflight, i)
         /\ refused' = Append(refused, inflight[i].body)
         /\ settled' = inflight[i].batchToSend
         /\ fresh' = Fresh(batch, RemoveAt(inflight, i))
    /\ op' = "status"
    /\ UNCHANGED <<isClient, batchSize, batch, timer, delivered, logged>>

\* a fetch() promise rejects (network failure): the catch runs
HttpRejectStep ==
    /\ \E i \in DOMAIN inflight :
         /\ inflight' = RemoveAt(inflight, i)
         /\ batch' = sendBatchCatch(inflight[i].batchToSend, batch)
         /\ settled' = inflight[i].batchToSend
    /\ fresh' = -1
    /\ op' = "reject"
    /\ UNCHANGED <<isClient, batchSize, timer, delivered, refused, logged>>

HttpLog == httpOnly /\ HttpLogStep

HttpTimer == httpOnly /\ HttpTimerStep

HttpFlush == httpOnly /\ HttpFlushStep

HttpDispose == httpOnly /\ HttpDisposeStep

HttpResolveOk == httpOnly /\ HttpResolveOkStep

HttpResolveStatus == httpOnly /\ HttpResolveStatusStep

HttpReject == httpOnly /\ HttpRejectStep

HttpNext ==
    \/ HttpLog
    \/ HttpTimer
    \/ HttpFlush
    \/ HttpDispose
    \/ HttpResolveOk
    \/ HttpResolveStatus
    \/ HttpReject


(***************************************************************************)
(* Memory transport (memory.transport.ts).                                 *)
(***************************************************************************)

\* constructor: options.maxLogs || 100
MemMaxLogs(option) == IF option = 0 THEN MemDefaultMaxLogs ELSE option

MemInit ==
    /\ \E option \in 0..MaxLogsOpt : memMaxLogs = MemMaxLogs(option)
    /\ memLogs = <<>>
    /\ memCalls = 0
    /\ memSince = <<>>

\* the eviction written with >= for >
MemPush_Ge(logs, e, max) ==
    LET pushed == Append(logs, e)
    IN  IF Len(pushed) >= max THEN Tail(pushed) ELSE pushed

\* log(): push, then shift() the oldest entry when the cap is exceeded
MemPush(logs, e, max) ==
    LET pushed == Append(logs, e)
    IN  IF Len(pushed) > max THEN Tail(pushed) ELSE pushed

\* log(level, message, metadata, context)
MemLog ==
    /\ memOnly
    /\ memCalls < MaxMemLog
    /\ \E m \in Metadata :
         LET e == LogEntry(memCalls + 1, m)
         IN  /\ memLogs' = MemPush(memLogs, e, memMaxLogs)
             /\ memSince' = Append(memSince, e)
    /\ memCalls' = memCalls + 1
    /\ UNCHANGED memMaxLogs

\* clear()
MemClear ==
    /\ memOnly
    /\ memLogs' = <<>>
    /\ memSince' = <<>>
    /\ UNCHANGED <<memMaxLogs, memCalls>>

\* getLogs(): a copy of the list
MemGetLogs == [i \in DOMAIN memLogs |-> memLogs[i]]

MemNext ==
    \/ MemLog
    \/ MemClear


(***************************************************************************)
(* localStorage transport (LocalStorageTransport).                         *)
(*                                                                         *)
(* localStorage is a map from keys to strings; the transport uses one key. *)
(* The string under the key is the JSON text of the list of entries.       *)
(***************************************************************************)

\* constructor: options.key || "app_logs"
lsKey == "app_logs"

\* constructor: options.maxLogs || 100
LSMaxLogs(option) == IF option = 0 THEN LSDefaultMaxLogs ELSE option

\* a storage with no key set
EmptyStorage == [k \in {} |-> <<>>]

LSInit ==
    /\ lsIsClient \in BOOLEAN
    /\ \E option \in 0..MaxLogsOpt : lsMaxLogs = LSMaxLogs(option)
    /\ localStorage = EmptyStorage
    /\ lsCalls = 0
    /\ lsSince = <<>>
    /\ lsOp = "new"

\* localStorage.getItem(key) || "[]": the text under the key, or the text of
\* the empty array when the key is not set
getItemOrEmpty(storage, key) ==
    IF key \in DOMAIN storage THEN storage[key] ELSE JSONstringify(<<>>)

\* the new entry appended where it is to be put in front
LSAddNewLog_Push(existingLogs, newLog, max) ==
    LET added == Append(existingLogs, newLog)
    IN  IF Len(added) > max THEN SubSeq(added, 1, max) ELSE added

\* log(): unshift the new entry, then cut the list to maxLogs entries
LSAddNewLog(existingLogs, newLog, max) ==
    LET added == <<newLog>> \o existingLogs
    IN  IF Len(added) > max THEN SubSeq(added, 1, max) ELSE added

\* log(level, message, metadata, context)
LSLog ==
    /\ lsOnly
    /\ lsCalls < MaxLSLog
    /\ lsCalls' = lsCalls + 1
    /\ lsOp' = "log"
    /\ \E m \in Metadata :
         LET newLog == LogEntry(lsCalls + 1, m)
             existingLogs == JSONparse(getItemOrEmpty(localStorage, lsKey))
             kept == LSAddNewLog(existingLogs, newLog, lsMaxLogs)
         IN  /\ lsSince' = Append(lsSince, newLog)
             /\ IF lsIsClient
                THEN localStorage' =
                        [k \in DOMAIN localStorage \cup {lsKey} |->
                            IF k = lsKey THEN JSONstringify(kept)
                            ELSE localStorage[k]]
                ELSE localStorage' = localStorage
    /\ UNCHANGED <<lsIsClient, lsMaxLogs>>

\* clear(): removeItem(key)
LSClear ==
    /\ lsOnly
    /\ lsOp' = "clear"
    /\ lsSince' = <<>>
    /\ IF lsIsClient
       THEN localStorage' =
               [k \in DOMAIN localStorage \ {lsKey} |-> localStorage[k]]
       ELSE localStorage' = localStorage
    /\ UNCHANGED <<lsIsClient, lsMaxLogs, lsCalls>>

\* getLogs()
LSGetLogs ==
    IF ~lsIsClient THEN <<>>
    ELSE JSONparse(getItemOrEmpty(localStorage, lsKey))

LSNext ==
    \/ LSLog
    \/ LSClear


(***************************************************************************)
(* IndexedDB transport (IndexedDBTransport, on Dexie).                     *)
(*                                                                         *)
(* Every Dexie call of the transport (add, count, toArray, bulkDelete,     *)
(* clear) runs in a transaction of its own on the one object store "logs". *)
(* The transaction is created when the call is made and IndexedDB starts   *)
(* the transactions of one store in the order they were created, except    *)
(* that read-only ones need not wait for each other.  pending holds the    *)
(* calls made and not yet run, in the order they were made; when a call    *)
(* has run, the async function that awaits it goes on to its next call.    *)
(***************************************************************************)

\* constructor: options.maxLogs || 10000
IdbMaxLogs(option) == IF option = 0 THEN IdbDefaultMaxLogs ELSE option

\* the entry log() builds; its timestamp is the clock's reading
IdbLogEntry(id, timestamp) == [id |-> id, timestamp |-> timestamp]

\* the calls on db.logs
AddCall(e, init) ==
    [kind |-> "add", init |-> init, entry |-> e, limit |-> 0, keys |-> {}]
CountCall(init) ==
    [kind |-> "count", init |-> init, entry |-> IdbLogEntry(0, 0), limit |-> 0,
     keys |-> {}]
ToArrayCall(limit, init) ==
    [kind |-> "toArray", init |-> init, entry |-> IdbLogEntry(0, 0),
     limit |-> limit, keys |-> {}]
BulkDeleteCall(keys, init) ==
    [kind |-> "bulkDelete", init |-> init, entry |-> IdbLogEntry(0, 0),
     limit |-> 0, keys |-> keys]
ClearCall ==
    [kind |-> "clear", init |-> FALSE, entry |-> IdbLogEntry(0, 0), limit |-> 0,
     keys |-> {}]

\* add, bulkDelete and clear run in a readwrite transaction
IsWrite(call) == call.kind \in {"add", "bulkDelete", "clear"}

\* the i-th pending call may run: no call made before it is in its way
CanRun(i) ==
    \A j \in 1..(i - 1) : ~IsWrite(pending[j]) /\ ~IsWrite(pending[i])

\* the order of the index on timestamp: by timestamp, then by primary key
IndexBefore(r, q) ==
    \/ r.timestamp < q.timestamp
    \/ r.timestamp = q.timestamp /\ r.key < q.key

\* orderBy("timestamp").limit(n).toArray(), then the ids of the rows
OldestIds(rows, n) ==
    {r.key : r \in {q \in rows :
                      Cardinality({x \in rows : IndexBefore(x, q)}) < n}}

\* trimLogs after its count: with more rows than the cap, the oldest
\* count - maxLogs rows are read; otherwise trimLogs returns
TrimAfterCount_Late(count, max, init) ==
    IF count > max + 1 THEN <<ToArrayCall(count - max, init)>> ELSE <<>>

TrimAfterCount(count, max, init) ==
    IF count > max THEN <<ToArrayCall(count - max, init)>> ELSE <<>>

\* initialize(): the queue is emptied before it is copied
QueueCopy_AfterReset(q) == <<>>

\* initialize(): const queueCopy = [...this.queue]
QueueCopy(q) == q

IdbInit ==
    /\ idbIsClient \in BOOLEAN
    /\ \E option \in 0..MaxIdbLogsOpt : idbMaxLogs = IdbMaxLogs(option)
    /\ initialized = FALSE
    /\ queue = <<>>
    /\ initPc = IF idbIsClient THEN "open" ELSE "none"
    /\ queueCopy = <<>>
    /\ store = {}
    /\ pending = <<>>
    /\ idbClock = 0
    /\ idbCalls = 0
    /\ cleared = FALSE
    /\ everQueued = {}
    /\ inserted = <<>>
    /\ addFailed = {}
    /\ trimFailed = FALSE

\* new Date() at a log() call: the clock has not gone back since the last
\* call, and two calls within a millisecond read the same time
Now(last) == IF last = 0 THEN {1} ELSE {last, last + 1}

\* log(): "if (!this.isClient) return" before the entry is built
IdbLogReturns_Never(client) == FALSE

IdbLogReturns(client) == ~client

\* log(): the entry is built, then addLog and trimLogs are called and not
\* awaited.  addLog queues the entry until initialized and calls add after;
\* trimLogs returns until initialized and calls count after.
IdbLog ==
    /\ idbOnly
    /\ idbCalls < MaxIdbLog
    /\ idbCalls' = idbCalls + 1
    /\ \E now \in Now(idbClock) :
         LET e == IdbLogEntry(idbCalls + 1, now)
         IN  /\ idbClock' = now
             /\ IF IdbLogReturns(idbIsClient)
                THEN UNCHANGED <<queue, pending, everQueued>>
                ELSE IF ~initialized
                THEN /\ queue' = Append(queue, e)
                     /\ everQueued' = everQueued \cup {e.id}
                     /\ UNCHANGED pending
                ELSE /\ pending' =
                          pending \o <<AddCall(e, FALSE), CountCall(FALSE)>>
                     /\ UNCHANGED <<queue, everQueued>>
    /\ UNCHANGED <<idbIsClient, idbMaxLogs, initialized, initPc, queueCopy,
                   store, cleared, inserted, addFailed,
                   trimFailed>>

\* initialize(): one turn of "for (const log of queueCopy) await addLog(log)",
\* and "await this.trimLogs()" after the last: the next entry is added, or
\* count is called
DrainNext(copy, calls) ==
    IF Len(copy) > 0
    THEN /\ pending' = Append(calls, AddCall(Head(copy), TRUE))
         /\ queueCopy' = Tail(copy)
         /\ initPc' = "drain"
    ELSE /\ pending' = Append(calls, CountCall(TRUE))
         /\ queueCopy' = <<>>
         /\ initPc' = "trim"

\* initialize(): db.open() resolves; initialized is set, a queue that is not
\* empty is copied and emptied and the copy is added entry by entry, then
\* trimLogs is called
IdbOpened ==
    /\ idbOnly
    /\ initPc = "open"
    /\ initialized' = TRUE
    /\ IF Len(queue) > 0
       THEN /\ queue' = <<>>
            /\ DrainNext(QueueCopy(queue), pending)
       ELSE /\ queue' = queue
            /\ DrainNext(<<>>, pending)
    /\ UNCHANGED <<idbIsClient, idbMaxLogs, store, idbClock, idbCalls,
                   cleared, everQueued, inserted, addFailed, trimFailed>>

\* initialize(): db.open() rejects; the catch reports it
IdbOpenFailed ==
    /\ idbOnly
    /\ initPc = "open"
    /\ initPc' = "failed"
    /\ UNCHANGED <<idbIsClient, idbMaxLogs, initialized, queue, queueCopy,
                   store, pending, idbClock, idbCalls, cleared, everQueued,
                   inserted, addFailed,
                   trimFailed>>

\* what the caller of an add does once the add has settled: log()'s addLog
\* returns; initialize() goes on with its loop
AfterAdd(call, rest) ==
    IF call.init
    THEN DrainNext(queueCopy, rest)
    ELSE /\ pending' = rest
         /\ UNCHANGED <<initPc, queueCopy>>

\* db.logs.add(logEntry) succeeds: the row gets the next key
IdbAdd ==
    /\ idbOnly
    /\ \E i \in DOMAIN pending :
          /\ CanRun(i)
          /\ pending[i].kind = "add"
          /\ store' = store \cup
                 {[key |-> Len(inserted) + 1, id |-> pending[i].entry.id,
                   timestamp |-> pending[i].entry.timestamp]}
          /\ inserted' = Append(inserted, pending[i].entry)
          /\ AfterAdd(pending[i], RemoveAt(pending, i))
          /\ UNCHANGED <<idbIsClient, idbMaxLogs, initialized, queue, idbClock,
                         idbCalls, cleared, everQueued, addFailed,
                   trimFailed>>

\* db.logs.add(logEntry) fails: addLog's catch reports it
IdbAddFailed ==
    /\ idbOnly
    /\ \E i \in DOMAIN pending :
          /\ CanRun(i)
          /\ pending[i].kind = "add"
          /\ addFailed' = addFailed \cup {pending[i].entry.id}
          /\ AfterAdd(pending[i], RemoveAt(pending, i))
          /\ UNCHANGED <<idbIsClient, idbMaxLogs, initialized, queue, store,
                         idbClock, idbCalls, cleared, everQueued, inserted,
                   trimFailed>>

\* what happens when a trimLogs has returned: initialize() returns after its own
TrimReturned(call) ==
    initPc' = IF call.init THEN "done" ELSE initPc

\* trimLogs: db.logs.count() resolves
IdbCount ==
    /\ idbOnly
    /\ \E i \in DOMAIN pending :
          /\ CanRun(i)
          /\ pending[i].kind = "count"
          /\ LET next == TrimAfterCount(Cardinality(store), idbMaxLogs,
                                        pending[i].init)
             IN  /\ pending' = RemoveAt(pending, i) \o next
                 /\ IF next = <<>> THEN TrimReturned(pending[i])
                    ELSE UNCHANGED initPc
          /\ UNCHANGED <<idbIsClient, idbMaxLogs, initialized, queue, queueCopy,
                         store, idbClock, idbCalls, cleared, everQueued,
                         inserted, addFailed,
                   trimFailed>>

\* trimLogs: orderBy("timestamp").limit(...).toArray() resolves and
\* bulkDelete is called with the ids of the rows read
IdbToArray ==
    /\ idbOnly
    /\ \E i \in DOMAIN pending :
          /\ CanRun(i)
          /\ pending[i].kind = "toArray"
          /\ pending' = Append(RemoveAt(pending, i),
                               BulkDeleteCall(OldestIds(store, pending[i].limit),
                                              pending[i].init))
          /\ UNCHANGED <<idbIsClient, idbMaxLogs, initialized, queue, initPc,
                         queueCopy, store, idbClock, idbCalls, cleared,
                         everQueued, inserted, addFailed,
                   trimFailed>>

\* trimLogs: db.logs.bulkDelete(oldestIds) resolves
IdbBulkDelete ==
    /\ idbOnly
    /\ \E i \in DOMAIN pending :
          /\ CanRun(i)
          /\ pending[i].kind = "bulkDelete"
          /\ store' = {r \in store : r.key \notin pending[i].keys}
          /\ pending' = RemoveAt(pending, i)
          /\ TrimReturned(pending[i])
          /\ UNCHANGED <<idbIsClient, idbMaxLogs, initialized, queue, queueCopy,
                         idbClock, idbCalls, cleared, everQueued, inserted,
                         addFailed,
                   trimFailed>>

\* trimLogs: the count, the toArray or the bulkDelete fails; the catch
\* reports it and trimLogs returns
IdbTrimFailed ==
    /\ idbOnly
    /\ \E i \in DOMAIN pending :
          /\ CanRun(i)
          /\ pending[i].kind \in {"count", "toArray", "bulkDelete"}
          /\ pending' = RemoveAt(pending, i)
          /\ TrimReturned(pending[i])
          /\ trimFailed' = TRUE
          /\ UNCHANGED <<idbIsClient, idbMaxLogs, initialized, queue, queueCopy,
                         store, idbClock, idbCalls, cleared, everQueued,
                         inserted, addFailed>>

\* a clear() call is in the store's hands
ClearPending == \E i \in DOMAIN pending : pending[i].kind = "clear"

\* clear(): returns at once until initialized, calls db.logs.clear() after.
\* The caller awaits one clear() before it calls the next.
IdbClearStep ==
    /\ ~ClearPending
    /\ cleared' = TRUE
    /\ IF ~idbIsClient \/ ~initialized
       THEN UNCHANGED pending
       ELSE pending' = Append(pending, ClearCall)
    /\ UNCHANGED <<idbIsClient, idbMaxLogs, initialized, queue, initPc,
                   queueCopy, store, idbClock, idbCalls, everQueued, inserted,
                   addFailed, trimFailed>>

\* clear(): db.logs.clear() resolves
IdbClearedStep ==
    /\ \E i \in DOMAIN pending :
          /\ CanRun(i)
          /\ pending[i].kind = "clear"
          /\ store' = {}
          /\ pending' = RemoveAt(pending, i)
          /\ UNCHANGED <<idbIsClient, idbMaxLogs, initialized, queue, initPc,
                         queueCopy, idbClock, idbCalls, cleared, everQueued,
                         inserted, addFailed,
                   trimFailed>>

\* clear(): db.logs.clear() fails; the catch reports it
IdbClearFailedStep ==
    /\ \E i \in DOMAIN pending :
          /\ CanRun(i)
          /\ pending[i].kind = "clear"
          /\ pending' = RemoveAt(pending, i)
          /\ UNCHANGED <<idbIsClient, idbMaxLogs, initialized, queue, initPc,
                         queueCopy, store, idbClock, idbCalls, cleared,
                         everQueued, inserted, addFailed, trimFailed>>

IdbClear == idbOnly /\ IdbClearStep

IdbCleared == idbOnly /\ IdbClearedStep

IdbClearFailed == idbOnly /\ IdbClearFailedStep

IdbNext ==
    \/ IdbLog
    \/ IdbOpened
    \/ IdbOpenFailed
    \/ IdbAdd
    \/ IdbAddFailed
    \/ IdbCount
    \/ IdbToArray
    \/ IdbBulkDelete
    \/ IdbTrimFailed
    \/ IdbClear
    \/ IdbCleared
    \/ IdbClearFailed


(***************************************************************************)
(* GlobalContext (context.ts) and Logger (logger.ts).                      *)
(*                                                                         *)
(* A context is a map from keys to values.  A Logger holds a reference to  *)
(* its transports array: withContext and withoutContext hand the           *)
(* receiver's array to the new Logger, so the two share it.  The           *)
(* ConsoleTransport never raises; "t1" and "t2" are transports written     *)
(* against the Transport interface, whose log() may raise.                 *)
(***************************************************************************)
Keys == {"a", "b"}

EmptyContext == [k \in {} |-> 0]

\* the values a key is given: two for "a", so that an overwrite shows
ValuesOf(k) == IF k = "a" THEN {1, 2} ELSE {1}

Contexts ==
    UNION {{m \in [D -> {1, 2}] : \A k \in D : m[k] \in ValuesOf(k)} :
              D \in SUBSET Keys}

\* lgOp of an operation that returns no new Logger: its name, the Logger it
\* was called on and the Logger it returned
Op(name, receiver, result) ==
    [name |-> name, receiver |-> receiver, result |-> result,
     was |-> [prefix |-> "App", formatter |-> "text", transports |-> 0,
              context |-> EmptyContext, minLevel |-> "info"],
     wasData |-> EmptyContext, context |-> EmptyContext, keys |-> {}]

\* lgOp of withContext and withoutContext: also the receiver and the global
\* context as they were when it was called, and its argument
OpDerive(name, x, y, context, keys) ==
    [name |-> name, receiver |-> x, result |-> y,
     was |-> loggers[x], wasData |-> contextData,
     context |-> context, keys |-> keys]

\* lastCall when the last operation was not a log call
NoCall ==
    [logger |-> 0, level |-> "info", metadata |-> Undefined,
     passed |-> FALSE, formats |-> 0, deliveries |-> <<>>, raised |-> FALSE]

\* { ...a, ...b }
Spread(a, b) ==
    [k \in DOMAIN a \cup DOMAIN b |-> IF k \in DOMAIN b THEN b[k] ELSE a[k]]

\* for (const key of keys) delete m[key]
Delete(m, keys) == [k \in DOMAIN m \ keys |-> m[k]]

\* GlobalContext.get
GlobalGet(data) == Spread(EmptyContext, data)

\* GlobalContext.set
GlobalSet ==
    /\ loggerOnly
    /\ \E context \in Contexts : contextData' = Spread(EmptyContext, context)
    /\ lgOp' = Op("set", 0, 0)
    /\ lastCall' = NoCall
    /\ UNCHANGED <<loggers, arrays>>

\* GlobalContext.add
GlobalAdd ==
    /\ loggerOnly
    /\ \E context \in Contexts : contextData' = Spread(contextData, context)
    /\ lgOp' = Op("add", 0, 0)
    /\ lastCall' = NoCall
    /\ UNCHANGED <<loggers, arrays>>

\* GlobalContext.remove
GlobalRemove ==
    /\ loggerOnly
    /\ \E keys \in SUBSET Keys : contextData' = Delete(contextData, keys)
    /\ lgOp' = Op("remove", 0, 0)
    /\ lastCall' = NoCall
    /\ UNCHANGED <<loggers, arrays>>

\* GlobalContext.clear
GlobalClear ==
    /\ loggerOnly
    /\ contextData' = EmptyContext
    /\ lgOp' = Op("clear", 0, 0)
    /\ lastCall' = NoCall
    /\ UNCHANGED <<loggers, arrays>>

\* LogLevel, in the order of shouldLog's levels array
levels == <<"debug", "info", "warn", "error">>

LogLevel == {levels[i] : i \in DOMAIN levels}

\* Array.prototype.indexOf
indexOf(s, x) ==
    IF \E i \in DOMAIN s : s[i] = x
    THEN (CHOOSE i \in DOMAIN s :
              s[i] = x /\ \A j \in 1..(i - 1) : s[j] # x) - 1
    ELSE -1

shouldLog_Gt(minLevel, level) == indexOf(levels, level) > indexOf(levels, minLevel)

\* a comparison that lets no level pass that is not in the array
shouldLog_Found(minLevel, level) ==
    indexOf(levels, level) >= 0 /\ indexOf(levels, level) >= indexOf(levels, minLevel)

\* Logger.shouldLog
shouldLog(minLevel, level) == indexOf(levels, level) >= indexOf(levels, minLevel)

Formatters == {"text", "simple", "json"}

CustomTransports == {"t1", "t2"}

\* x || d
OrDefault(x, d) == IF x = Undefined THEN d ELSE x

\* Logger.constructor; transports is the array the new Logger refers to
NewLogger(options, transports) ==
    [prefix |-> OrDefault(options.prefix, "App"),
     formatter |-> OrDefault(options.formatter, "text"),
     transports |-> transports,
     context |-> EmptyContext,
     minLevel |-> OrDefault(options.minLevel, "info")]

\* the options withContext and withoutContext construct the new Logger from
OptionsOf(logger) ==
    [prefix |-> logger.prefix, formatter |-> logger.formatter,
     minLevel |-> logger.minLevel]

ArrayIds == 1..MaxLoggers

\* a place for a new array: one no other Logger than x refers to
NewArrayId(x) ==
    CHOOSE a \in ArrayIds :
        /\ \A i \in DOMAIN loggers \ {x} : loggers[i].transports # a
        /\ \A b \in 1..(a - 1) : \E i \in DOMAIN loggers \ {x} : loggers[i].transports = b

\* new Logger(options), with options.prefix one of prefixes and
\* options.transports one of transports
LoggerNew(prefixes, transports) ==
    /\ contextData = EmptyContext
    /\ \E prefix \in prefixes, ts \in transports :
           /\ loggers =
                  <<NewLogger([prefix |-> prefix, formatter |-> Undefined,
                               minLevel |-> Undefined], 1)>>
           /\ arrays = [a \in ArrayIds |->
                           IF a = 1 THEN OrDefault(ts, <<"console">>)
                           ELSE <<>>]
    /\ lgOp = Op("new", 0, 1)
    /\ lastCall = NoCall

LoggerInit == LoggerNew({Undefined, "Svc"}, {Undefined, <<"t1", "t2">>})

ContextInit == LoggerNew({Undefined}, {Undefined})

\* Logger.setFormatter
LoggerSetFormatterTo(formatters) ==
    /\ loggerOnly
    /\ \E x \in DOMAIN loggers, formatter \in formatters :
           /\ loggers' = [loggers EXCEPT ![x].formatter = formatter]
           /\ lgOp' = Op("setFormatter", x, x)
    /\ lastCall' = NoCall
    /\ UNCHANGED <<contextData, arrays>>

LoggerSetFormatter == LoggerSetFormatterTo(Formatters)

\* Logger.addTransport
LoggerAddTransportOf(transports) ==
    /\ loggerOnly
    /\ \E x \in DOMAIN loggers, transport \in transports :
           /\ Len(arrays[loggers[x].transports]) < MaxTransports
           /\ arrays' = [arrays EXCEPT ![loggers[x].transports] = Append(@, transport)]
           /\ lgOp' = Op("addTransport", x, x)
    /\ lastCall' = NoCall
    /\ UNCHANGED <<contextData, loggers>>

LoggerAddTransport == LoggerAddTransportOf(CustomTransports)

\* a clearTransports that empties the array in place
LoggerClearTransports_InPlace ==
    /\ loggerOnly
    /\ \E x \in DOMAIN loggers :
           /\ arrays' = [arrays EXCEPT ![loggers[x].transports] = <<>>]
           /\ lgOp' = Op("clearTransports", x, x)
    /\ lastCall' = NoCall
    /\ UNCHANGED <<contextData, loggers>>

\* Logger.clearTransports
LoggerClearTransports ==
    /\ loggerOnly
    /\ \E x \in DOMAIN loggers :
           LET new == NewArrayId(x)
               shared == {loggers[i].transports : i \in DOMAIN loggers \ {x}}
           IN  /\ loggers' = [loggers EXCEPT ![x].transports = new]
               /\ arrays' = [a \in ArrayIds |->
                                IF a \in shared THEN arrays[a] ELSE <<>>]
               /\ lgOp' = Op("clearTransports", x, x)
    /\ lastCall' = NoCall
    /\ UNCHANGED contextData

\* Logger.setMinLevel
LoggerSetMinLevelTo(known) ==
    /\ loggerOnly
    /\ \E x \in DOMAIN loggers, level \in known :
           /\ loggers' = [loggers EXCEPT ![x].minLevel = level]
           /\ lgOp' = Op("setMinLevel", x, x)
    /\ lastCall' = NoCall
    /\ UNCHANGED <<contextData, arrays>>

LoggerSetMinLevel == LoggerSetMinLevelTo(LogLevel)

mergedContext_OwnFirst(global, own) == Spread(own, global)

\* Logger.createLogData: mergedContext
mergedContext(global, own) == Spread(global, own)

\* Object.keys(mergedContext).length > 0 ? mergedContext : undefined
ContextOrUndefined(merged) ==
    IF Cardinality(DOMAIN merged) > 0
    THEN [defined |-> TRUE, value |-> merged]
    ELSE [defined |-> FALSE, value |-> EmptyContext]

\* Logger.createLogData
createLogData(logger, level, metadata, data) ==
    [level |-> level,
     prefix |-> logger.prefix,
     metadata |-> metadata,
     context |-> ContextOrUndefined(mergedContext(GlobalGet(data), logger.context))]

\* LogFormatter.format of the text, simple and json formatters: the message
\* is rendered from the level, the prefix (not by the simple formatter) and
\* the context when there is one; the metadata is handed on as it is
format(formatter, logData) ==
    [message |-> [formatter |-> formatter,
                  level |-> logData.level,
                  prefix |-> IF formatter = "simple" THEN "" ELSE logData.prefix,
                  context |-> logData.context],
     metadata |-> logData.metadata]

\* the number of transports of ts whose log() is called when those in raises
\* raise: the for loop of Logger.log ends at the first exception
Dispatched(ts, raises) ==
    IF \E i \in DOMAIN ts : ts[i] \in raises
    THEN CHOOSE i \in DOMAIN ts :
             ts[i] \in raises /\ \A j \in 1..(i - 1) : ts[j] \notin raises
    ELSE Len(ts)

Deliveries_Reversed(ts, n, level, formatted, context) ==
    [i \in 1..n |->
        [transport |-> ts[n + 1 - i], level |-> level,
         message |-> formatted.message, metadata |-> formatted.metadata,
         context |-> context]]

\* the transport.log calls of Logger.log's for loop, in the order made
Deliveries(ts, n, level, formatted, context) ==
    [i \in 1..n |->
        [transport |-> ts[i], level |-> level,
         message |-> formatted.message, metadata |-> formatted.metadata,
         context |-> context]]

\* Logger.log, called through debug, info, warn or error
LoggerLogAt(known) ==
    /\ loggerOnly
    /\ \E x \in DOMAIN loggers, level \in known, metadata \in Metadata :
           LET logger == loggers[x]
               ts == arrays[logger.transports]
           IN  \E raises \in SUBSET (CustomTransports \cap {ts[i] : i \in DOMAIN ts}) :
                   /\ lgOp' = Op("log", x, 0)
                   /\ IF ~shouldLog(logger.minLevel, level)
                      THEN lastCall' =
                               [logger |-> x, level |-> level, metadata |-> metadata,
                                passed |-> FALSE, formats |-> 0,
                                deliveries |-> <<>>, raised |-> FALSE]
                      ELSE LET logData == createLogData(logger, level, metadata, contextData)
                               formatted == format(logger.formatter, logData)
                               n == Dispatched(ts, raises)
                           IN  lastCall' =
                                   [logger |-> x, level |-> level,
                                    metadata |-> metadata,
                                    passed |-> TRUE, formats |-> 1,
                                    deliveries |->
                                        Deliveries(ts, n, level, formatted,
                                                   logData.context),
                                    raised |-> (n > 0 /\ ts[n] \in raises)]
    /\ UNCHANGED <<contextData, loggers, arrays>>

LoggerLog == LoggerLogAt(LogLevel)

withContextOverlay_OwnWins(own, context) == Spread(context, own)

\* Logger.withContext: newLogger.context
withContextOverlay(own, context) == Spread(own, context)

\* the Loggers after the one just constructed is kept as Logger y: a new
\* one, or in the place of one the program keeps no longer
Keep(y, newLogger) ==
    IF y = Len(loggers) + 1
    THEN Append(loggers, newLogger)
    ELSE [loggers EXCEPT ![y] = newLogger]

\* where the Logger returned by a call on Logger x may be kept
Places(x) == (1..Len(loggers) + 1) \cap ((1..MaxLoggers) \ {x})

\* Logger.withContext
withContext(x, y, context) ==
    LET newLogger == NewLogger(OptionsOf(loggers[x]), loggers[x].transports)
    IN  /\ loggers' =
               Keep(y, [newLogger EXCEPT
                           !.context = withContextOverlay(loggers[x].context, context)])
        /\ lgOp' = OpDerive("withContext", x, y, context, {})
        /\ lastCall' = NoCall
        /\ UNCHANGED <<contextData, arrays>>

LoggerWithContext ==
    /\ loggerOnly
    /\ \E x \in DOMAIN loggers, context \in Contexts :
           \E y \in Places(x) : withContext(x, y, context)

\* Logger.withoutContext: newLogger.context
withoutContextOverlay(own, keys) == Delete(Spread(EmptyContext, own), keys)

\* Logger.withoutContext
withoutContext(x, y, keys) ==
    LET newLogger == NewLogger(OptionsOf(loggers[x]), loggers[x].transports)
    IN  /\ loggers' =
               Keep(y, [newLogger EXCEPT
                           !.context = withoutContextOverlay(loggers[x].context, keys)])
        /\ lgOp' = OpDerive("withoutContext", x, y, EmptyContext, keys)
        /\ lastCall' = NoCall
        /\ UNCHANGED <<contextData, arrays>>

LoggerWithoutContext ==
    /\ loggerOnly
    /\ \E x \in DOMAIN loggers, keys \in SUBSET Keys :
           \E y \in Places(x) : withoutContext(x, y, keys)

\* the operations on the transports array and the formatter
FanOutNext ==
    \/ LoggerSetFormatter
    \/ LoggerAddTransport
    \/ LoggerClearTransports
    \/ LoggerLog

\* the levels a caller not held to LogLevelType may pass: those of the
\* array and two that are not in it
AnyLevel == LogLevel \cup {"verbose", "trace"}

\* setMinLevel(level) with any string
LoggerSetAnyMinLevel == LoggerSetMinLevelTo(AnyLevel)

\* log(level, ..) with any string
LoggerLogAnyLevel == LoggerLogAt(AnyLevel)

\* the operations on the minimum level, with levels outside the array
AnyLevelNext ==
    \/ LoggerSetAnyMinLevel
    \/ LoggerLogAnyLevel

\* the operations on the minimum level
LevelsNext ==
    \/ LoggerSetMinLevel
    \/ LoggerLog

\* the operations on the global context and the Loggers' overlays
ContextNext ==
    \/ GlobalSet
    \/ GlobalAdd
    \/ GlobalRemove
    \/ GlobalClear
    \/ LoggerWithContext
    \/ LoggerWithoutContext
    \/ LoggerLog

\* withContext({}) and withoutContext([]): the new Logger has the
\* receiver's overlay; the program keeps every Logger it derived
LoggerDerive ==
    /\ loggerOnly
    /\ Len(loggers) < MaxLoggers
    /\ \E x \in DOMAIN loggers :
           \/ withContext(x, Len(loggers) + 1, EmptyContext)
           \/ withoutContext(x, Len(loggers) + 1, {})

\* one value other than the default for each field reconfigured
LoggerSetOneFormatter == LoggerSetFormatterTo({"json"})

LoggerAddOneTransport == LoggerAddTransportOf({"t1"})

LoggerSetOneMinLevel == LoggerSetMinLevelTo({"debug"})

\* the Loggers derived with withContext and withoutContext, and the
\* operations that reconfigure a Logger in place
DeriveNext ==
    \/ LoggerDerive
    \/ LoggerSetOneFormatter
    \/ LoggerAddOneTransport
    \/ LoggerClearTransports
    \/ LoggerSetOneMinLevel
(***************************************************************************)
(* InstanceManager and LoggerManager (manager.ts).                         *)
(*                                                                         *)
(* A config is an object: its keys in the order they were written, each    *)
(* with a value.  A value is a string, an object with own properties of    *)
(* string value (a plain object, or an instance of a class, whose methods  *)
(* are not own properties), or an array of objects; a number or a boolean  *)
(* is held by its text.  A JSON text is the sequence of its tokens.        *)
(***************************************************************************)
Str(s) == [kind |-> "string", text |-> s, props |-> <<>>, items |-> <<>>]

Num(digits) == [kind |-> "number", text |-> digits, props |-> <<>>, items |-> <<>>]

Bool(text) == [kind |-> "boolean", text |-> text, props |-> <<>>, items |-> <<>>]

\* the value of a property the object does not have
Missing == [kind |-> "undefined", text |-> "", props |-> <<>>, items |-> <<>>]

Obj(class, props) == [kind |-> "object", text |-> class, props |-> props, items |-> <<>>]

Arr(items) == [kind |-> "array", text |-> "", props |-> <<>>, items |-> items]

Range(s) == {s[i] : i \in DOMAIN s}

RECURSIVE Concat(_)
\* the concatenation of a sequence of sequences
Concat(ss) == IF ss = <<>> THEN <<>> ELSE Head(ss) \o Concat(Tail(ss))

\* Object.keys(config)
ObjectKeys(pairs) == [i \in DOMAIN pairs |-> pairs[i].key]

\* the option names the model uses, in the order Array.prototype.sort gives
KeyOrder ==
    <<"batchInterval", "batchSize", "enableMetadata", "endpoint", "formatter",
      "headers", "key", "maxLogs", "minLevel", "prefix", "timestampFormat",
      "transports">>

SortKeys_Unsorted(keys) == keys

\* Object.keys(config).sort()
SortKeys(keys) == SelectSeq(KeyOrder, LAMBDA k : k \in Range(keys))

\* config[key]
ValueOf(pairs, key) == (CHOOSE p \in Range(pairs) : p.key = key).value

\* JSON.stringify of an object under an array replacer: the own properties
\* named in the replacer, in the replacer's order
stringifyObject(v, replacer) ==
    LET names == SelectSeq(replacer, LAMBDA n : \E p \in Range(v.props) : p.key = n)
    IN  <<"{">>
        \o Concat([i \in DOMAIN names |->
                      <<names[i], ":", "str", ValueOf(v.props, names[i])>>])
        \o <<"}">>

\* JSON.stringify of a value under an array replacer: the replacer does not
\* filter the elements of an array, but it filters their properties
stringifyValue(v, replacer) ==
    CASE v.kind = "string" -> <<"str", v.text>>
      [] v.kind \in {"number", "boolean"} -> <<v.text>>
      [] v.kind = "object" -> stringifyObject(v, replacer)
      [] v.kind = "array" ->
             <<"[">>
             \o Concat([i \in DOMAIN v.items |-> stringifyObject(v.items[i], replacer)])
             \o <<"]">>

\* JSON.stringify(config, replacer)
JSONstringifyWith(pairs, replacer) ==
    LET names == SelectSeq(replacer, LAMBDA n : \E p \in Range(pairs) : p.key = n)
    IN  <<"{">>
        \o Concat([i \in DOMAIN names |->
                      <<names[i], ":">> \o stringifyValue(ValueOf(pairs, names[i]), replacer)])
        \o <<"}">>

\* InstanceManager.getInstanceKey; config.given is FALSE for no config
getInstanceKey(name, config) ==
    IF ~config.given \/ Len(ObjectKeys(config.pairs)) = 0
    THEN <<name>>
    ELSE <<name, ":">>
         \o JSONstringifyWith(config.pairs, SortKeys(ObjectKeys(config.pairs)))

Config(pairs) == [given |-> TRUE, pairs |-> pairs]

NoConfig == [given |-> FALSE, pairs |-> <<>>]

Pair(key, value) == [key |-> key, value |-> value]

\* the configs instance() is called with
ConfigInputs ==
    {NoConfig,
     Config(<<>>),
     Config(<<Pair("minLevel", Str("debug"))>>),
     Config(<<Pair("minLevel", Str("warn"))>>),
     Config(<<Pair("formatter", Obj("JsonFormatter", <<>>))>>),
     Config(<<Pair("formatter", Obj("SimpleFormatter", <<>>))>>),
     Config(<<Pair("transports", Arr(<<Obj("ConsoleTransport", <<>>)>>))>>),
     Config(<<Pair("transports",
                   Arr(<<Obj("MemoryTransport", <<Pair("maxLogs", "100")>>)>>))>>),
     Config(<<Pair("headers", Obj("Object", <<Pair("Authorization", "A")>>))>>),
     Config(<<Pair("headers", Obj("Object", <<Pair("Authorization", "B")>>))>>),
     Config(<<Pair("minLevel", Str("debug")), Pair("prefix", Str("P"))>>),
     Config(<<Pair("prefix", Str("P")), Pair("minLevel", Str("debug"))>>)}

\* the drivers registerBuiltInDrivers registers that need no endpoint and
\* no browser
DriverNames == {"console", "memory"}

\* the drivers registerBuiltInDrivers registers (the indexedDB driver, which
\* is like the localStorage one, is left out)
BuiltInDrivers == {"console", "memory", "localStorage", "http"}

\* the class of the transport the factory of a driver constructs
FactoryTransport(name) ==
    CASE name = "memory" -> "MemoryTransport"
      [] name = "localStorage" -> "LocalStorageTransport"
      [] name = "http" -> "HttpTransport"
      [] OTHER -> "ConsoleTransport"

\* the options object a transport's constructor is called with
NoOptions ==
    [endpoint |-> Missing, headers |-> Missing, batchSize |-> Missing,
     batchInterval |-> Missing, maxLogs |-> Missing, key |-> Missing]

\* a transport object: its class, the Logger whose factory constructed it
\* (0 for one constructed elsewhere) and its constructor's argument
Transport(kind, madeFor, options) ==
    [kind |-> kind, madeFor |-> madeFor, options |-> options]

\* DEFAULT_CONFIG.transports: the one ConsoleTransport made with the module
DefaultConfigTransports == <<Transport("ConsoleTransport", 0, NoOptions)>>

\* config[key], undefined when the object has no such property
Lookup(pairs, key) ==
    IF \E p \in Range(pairs) : p.key = key THEN ValueOf(pairs, key) ELSE Missing

\* const { key = default } = config
OrElse(v, default) == IF v = Missing THEN default ELSE v

\* !v for a string or undefined
Falsy(v) == v = Missing \/ (v.kind = "string" /\ v.text = "")

\* the argument the factory of a driver hands to its transport's constructor
FactoryOptions(name, pairs) ==
    CASE name = "memory" ->
             [NoOptions EXCEPT !.maxLogs = OrElse(Lookup(pairs, "maxLogs"), Num("100"))]
      [] name = "localStorage" ->
             [NoOptions EXCEPT !.key = OrElse(Lookup(pairs, "key"), Str("app_logs")),
                               !.maxLogs = OrElse(Lookup(pairs, "maxLogs"), Num("100"))]
      [] name = "http" ->
             [NoOptions EXCEPT !.endpoint = Lookup(pairs, "endpoint"),
                               !.headers = Lookup(pairs, "headers"),
                               !.batchSize = Lookup(pairs, "batchSize"),
                               !.batchInterval = Lookup(pairs, "batchInterval")]
      [] OTHER -> NoOptions

\* the transports of { ...DEFAULT_CONFIG, ...config }: the caller's objects,
\* by class, or the default ones
ConfigTransports(pairs) ==
    IF Lookup(pairs, "transports") = Missing
    THEN DefaultConfigTransports
    ELSE [i \in DOMAIN Lookup(pairs, "transports").items |->
             Transport(Lookup(pairs, "transports").items[i].text, 0, NoOptions)]

\* InstanceManager.resolve: a registered driver's factory makes a Logger of
\* the merged config with the transport it constructs in place of the
\* config's transports, and the http one raises without an endpoint; for
\* another name the default factory makes a Logger of the merged config
resolve(name, config, id) ==
    [raised |-> name = "http" /\ Falsy(Lookup(config.pairs, "endpoint")),
     logger |->
         [driver |-> name,
          config |-> Range(config.pairs),
          transports |->
              IF name \in BuiltInDrivers
              THEN <<Transport(FactoryTransport(name), id,
                               FactoryOptions(name, config.pairs))>>
              ELSE ConfigTransports(config.pairs)]]

\* the cache and the Loggers after instance(name, config), the Logger it
\* returns, and whether it raised
instance(name, config) ==
    LET instanceKey == getInstanceKey(name, config)
        id == Len(objects) + 1
        built == resolve(name, config, id)
    IN  IF instanceKey \in DOMAIN instances
        THEN [instances |-> instances, objects |-> objects,
              returned |-> instances[instanceKey], raised |-> FALSE]
        ELSE IF built.raised
        THEN [instances |-> instances, objects |-> objects,
              returned |-> 0, raised |-> TRUE]
        ELSE [instances |->
                  [k \in DOMAIN instances \cup {instanceKey} |->
                      IF k = instanceKey THEN id ELSE instances[k]],
              objects |-> Append(objects, built.logger),
              returned |-> id, raised |-> FALSE]

\* what a raising operation found when it was called
Snapshot == [instances |-> instances, objects |-> objects, stacks |-> stacks]

NoSnapshot == [instances |-> <<>>, objects |-> <<>>, stacks |-> <<>>]

\* the record of an operation: its name, its argument, the stack it looked
\* up, the Logger it returned, whether it raised, the transports it
\* constructed itself, and for a raising one what it found
MgrOp(name, arg, returned) ==
    [name |-> name, arg |-> arg, stack |-> "", returned |-> returned,
     raised |-> FALSE, made |-> <<>>, key |-> <<>>, was |-> NoSnapshot]

MgrInit ==
    /\ instances = [k \in {} |-> 0]
    /\ objects = <<>>
    /\ stacks = [k \in {} |-> <<>>]
    /\ mgrCalls = <<>>
    /\ mgrOp = MgrOp("new", "", 0)

\* a call of instance(name, config) by the operation caller, which constructed
\* the transports made before it
InstanceCall(caller, name, config, made) ==
    LET r == instance(name, config)
    IN  /\ instances' = r.instances
        /\ objects' = r.objects
        /\ mgrCalls' = IF r.raised THEN mgrCalls
                       ELSE Append(mgrCalls, [name |-> name, config |-> config,
                                              returned |-> r.returned])
        /\ mgrOp' = [MgrOp(caller, name, r.returned) EXCEPT
                         !.raised = r.raised,
                         !.made = made,
                         !.key = getInstanceKey(name, config),
                         !.was = IF r.raised THEN Snapshot ELSE NoSnapshot]

\* InstanceManager.instance, also through LoggerManager.driver and
\* createDriver
MgrInstance ==
    /\ mgrOnly
    /\ Len(mgrCalls) < MaxCalls
    /\ \E name \in DriverNames, config \in ConfigInputs :
           InstanceCall("instance", name, config, <<>>)
    /\ UNCHANGED stacks

\* InstanceManager.clearInstances; the Loggers handed out before are the
\* callers' from then on
MgrClearInstances ==
    /\ mgrOnly
    /\ instances' = [k \in {} |-> 0]
    /\ objects' = <<>>
    /\ mgrCalls' = <<>>
    /\ mgrOp' = MgrOp("clearInstances", "", 0)
    /\ UNCHANGED stacks

\* the names createStack is called with
StackNames == {"default"}

\* the names stack() is called with; Undefined for no argument
StackArgs == {Undefined, "default", "other"}

\* the driver lists createStack is called with
StackInputs == {<<"console", "memory">>, <<"memory", "console">>, <<"memory">>}

\* LoggerManager.createStack
MgrCreateStack ==
    /\ mgrOnly
    /\ \E name \in StackNames, drivers \in StackInputs :
           /\ stacks' = [k \in DOMAIN stacks \cup {name} |->
                            IF k = name THEN drivers ELSE stacks[k]]
           /\ mgrOp' = [MgrOp("createStack", name, 0) EXCEPT !.stack = name]
    /\ UNCHANGED <<instances, objects, mgrCalls>>

\* LoggerManager.getInstanceConfig(name).transports
InstanceConfigTransports(name) == DefaultConfigTransports

\* the transports stack() adds to the Logger of the first driver
StackAdded(drivers) ==
    Concat([i \in 1..(Len(drivers) - 1) |-> InstanceConfigTransports(drivers[i + 1])])

StackName_AsGiven(name) == name

\* stack(): stackName = name || "default"
StackName(name) == IF name = Undefined THEN "default" ELSE name

\* LoggerManager.stack
MgrStack ==
    /\ mgrOnly
    /\ \E name \in StackArgs :
           IF StackName(name) \notin DOMAIN stacks
           THEN /\ mgrOp' = [MgrOp("stack", name, 0) EXCEPT
                                 !.stack = StackName(name),
                                 !.raised = TRUE,
                                 !.was = Snapshot]
                /\ UNCHANGED <<instances, objects, mgrCalls>>
           ELSE LET drivers == stacks[StackName(name)]
                    r == instance(drivers[1], NoConfig)
                    added == StackAdded(drivers)
                IN  /\ Len(mgrCalls) < MaxCalls
                    /\ Len(r.objects[r.returned].transports) + Len(added) <= MaxTransports
                    /\ instances' = r.instances
                    /\ objects' = [r.objects EXCEPT ![r.returned].transports = @ \o added]
                    /\ mgrCalls' = Append(mgrCalls, [name |-> drivers[1], config |-> NoConfig,
                                               returned |-> r.returned])
                    /\ mgrOp' = [MgrOp("stack", name, r.returned) EXCEPT
                                     !.stack = StackName(name)]
    /\ UNCHANGED stacks

MgrNext ==
    \/ MgrInstance
    \/ MgrClearInstances
    \/ MgrCreateStack
    \/ MgrStack

(***************************************************************************)
(* The create*Driver functions of LoggerManager, the http driver and the   *)
(* names no driver is registered under.                                    *)
(***************************************************************************)
\* DEFAULT_CONFIG
DefaultConfig ==
    <<Pair("prefix", Str("App")),
      Pair("formatter", Obj("TextFormatter", <<>>)),
      Pair("minLevel", Str("info")),
      Pair("enableMetadata", Bool("true")),
      Pair("timestampFormat", Str("ISO")),
      Pair("transports", Arr(<<Obj("ConsoleTransport", <<>>)>>))>>

\* { ...a, ...b }: the properties of a in their order, with b's value where
\* b has the key, then the properties only b has
SpreadPairs(a, b) ==
    [i \in DOMAIN a |-> Pair(a[i].key, OrElse(Lookup(b, a[i].key), a[i].value))]
    \o SelectSeq(b, LAMBDA p : Lookup(a, p.key) = Missing)

\* a transport as a value of a config: an object of its class whose own
\* properties hold what the constructor was given
AsObj(t) ==
    Obj(t.kind,
        SelectSeq(<<Pair("endpoint", t.options.endpoint.text),
                    Pair("batchSize", t.options.batchSize.text),
                    Pair("maxLogs", t.options.maxLogs.text),
                    Pair("key", t.options.key.text)>>,
                  LAMBDA p : p.value # ""))

\* the config a create*Driver function hands to createDriver:
\* { ...DEFAULT_CONFIG, ...restConfig, transports: [...] }
createConfig(restConfig, transports) ==
    Config(SpreadPairs(SpreadPairs(DefaultConfig, restConfig),
                       <<Pair("transports", Arr([i \in DOMAIN transports |->
                                                    AsObj(transports[i])]))>>))

\* the transport options the create*Driver functions and the HttpTransport
\* constructor are called with
CreateOptions(kind) ==
    CASE kind = "memory" ->
             {[NoOptions EXCEPT !.maxLogs = m] : m \in {Missing, Num("1"), Num("2")}}
      [] kind = "localStorage" ->
             {[NoOptions EXCEPT !.key = k, !.maxLogs = m] :
                 k \in {Missing, Str("k")}, m \in {Missing, Num("1")}}
      [] kind = "http" ->
             {[NoOptions EXCEPT !.endpoint = e, !.headers = h, !.batchSize = b] :
                 e \in {Missing, Str(""), Str("https://x")},
                 h \in {Missing, Obj("Object", <<Pair("Authorization", "A")>>)},
                 b \in {Missing, Num("2")}}

\* the Logger options the create*Driver functions are called with
RestInputs == {<<>>, <<Pair("prefix", Str("P"))>>}

\* createMemoryDriver, createLocalStorageDriver and createHttpDriver: the
\* function constructs a ConsoleTransport and the transport of its kind from
\* the options, and calls createDriver with the config holding them
DrvCreate ==
    /\ mgrOnly
    /\ Len(mgrCalls) < MaxCalls
    /\ \E kind \in {"memory", "localStorage", "http"}, restConfig \in RestInputs :
           \E options \in CreateOptions(kind) :
               LET made == <<Transport("ConsoleTransport", 0, NoOptions),
                             Transport(FactoryTransport(kind), 0, options)>>
               IN  InstanceCall("createDriver", kind, createConfig(restConfig, made), made)
    /\ UNCHANGED stacks

\* the configs instance() is called with for the http driver and for a name
\* nothing is registered under
DrvConfigs ==
    {NoConfig,
     Config(<<Pair("minLevel", Str("debug"))>>),
     Config(<<Pair("endpoint", Str(""))>>),
     Config(<<Pair("endpoint", Str("https://x"))>>),
     Config(<<Pair("endpoint", Str("https://x")), Pair("batchSize", Num("2"))>>),
     Config(<<Pair("transports",
                   Arr(<<Obj("MemoryTransport", <<Pair("maxLogs", "100")>>)>>))>>)}

\* instance(name, config) and driver(name) for the http driver and for a
\* name nothing is registered under
DrvInstance ==
    /\ mgrOnly
    /\ Len(mgrCalls) < MaxCalls
    /\ \E name \in {"http", "syslog"}, config \in DrvConfigs :
           InstanceCall("instance", name, config, <<>>)
    /\ UNCHANGED stacks

\* new HttpTransport(options): the constructor stores options.endpoint as it
\* is, and does not raise
DrvNewHttpTransport ==
    /\ mgrOnly
    /\ \E options \in CreateOptions("http") :
           mgrOp' = [MgrOp("new HttpTransport", "http", 0) EXCEPT
                         !.made = <<Transport("HttpTransport", 0, options)>>]
    /\ UNCHANGED <<instances, objects, stacks, mgrCalls>>

DriversNext ==
    \/ DrvCreate
    \/ DrvInstance
    \/ DrvNewHttpTransport
    \/ MgrClearInstances

(***************************************************************************)
(* What becomes of a failure inside a built-in transport.                  *)
(*                                                                         *)
(* log() runs its own statements and starts async functions it does not    *)
(* await (sendBatch; addLog and trimLogs); the constructor of the          *)
(* IndexedDB transport starts initialize() the same way.  A statement that *)
(* raises inside a try block is caught and reported with console.error;    *)
(* outside one it raises from log(), or, in an async function nobody       *)
(* awaits, rejects a promise nobody handles.                               *)
(***************************************************************************)
TransportKinds == {"console", "memory", "localStorage", "indexedDB", "http"}

\* the statements of log() itself that can raise, in order: the storage
\* calls of LocalStorageTransport.log; the other log() bodies build an entry
\* and push it
SyncOps(kind, client) ==
    IF kind = "localStorage" /\ client
    THEN <<"getItem", "JSON.parse", "setItem">>
    ELSE <<>>

\* the calls an async function awaits, in order
Awaits(fn) ==
    CASE fn = "sendBatch" -> <<"fetch">>
      [] fn = "initialize" -> <<"open">>
      [] fn = "addLog" -> <<"add">>
      [] fn = "trimLogs" -> <<"count", "toArray", "bulkDelete">>

Guarded_NoTry(call) == FALSE

\* the statement is inside a try block with a catch that reports and goes on
Guarded(call) ==
    call \in {"getItem", "JSON.parse", "setItem",
            "fetch", "open", "add", "count", "toArray", "bulkDelete"}

\* the async functions log() starts; reached: the HTTP batch is full
Started(kind, client, ready, reached) ==
    CASE kind = "http" /\ reached -> <<"sendBatch">>
      [] kind = "indexedDB" /\ client /\ ready -> <<"addLog", "trimLogs">>
      [] OTHER -> <<>>

Task(fn) == [fn |-> fn, at |-> 1]

BoundaryInit ==
    /\ bKind \in TransportKinds
    /\ bClient \in BOOLEAN
    /\ bReady = FALSE
    /\ bQueue = 0
    /\ bTasks = IF bKind = "indexedDB" /\ bClient THEN <<Task("initialize")>> ELSE <<>>
    /\ bLogs = 0
    /\ bThrown = FALSE
    /\ bUnhandled = FALSE
    /\ bReported = FALSE

\* log() of the transport; failing is the statement of log() that raises, 0
\* for none
BoundaryLog ==
    /\ bndOnly
    /\ bLogs < MaxBoundaryLog
    /\ LET sync == SyncOps(bKind, bClient)
       IN  \E failing \in 0..Len(sync), reached \in BOOLEAN :
               /\ bThrown' = (bThrown \/ (failing > 0 /\ ~Guarded(sync[failing])))
               /\ bReported' = (bReported \/ (failing > 0 /\ Guarded(sync[failing])))
               /\ bTasks' = bTasks \o [i \in DOMAIN Started(bKind, bClient, bReady, reached) |->
                                          Task(Started(bKind, bClient, bReady, reached)[i])]
               /\ bQueue' = IF bKind = "indexedDB" /\ bClient /\ ~bReady
                            THEN bQueue + 1 ELSE bQueue
    /\ bLogs' = bLogs + 1
    /\ UNCHANGED <<bKind, bClient, bReady, bUnhandled>>

\* the call an async function awaits is fulfilled: the function goes on to
\* its next await or returns (trimLogs returns after count when nothing is
\* to be evicted); initialize() then adds the queued entries and trims
BoundaryFulfil ==
    /\ bndOnly
    /\ \E i \in DOMAIN bTasks, goesOn \in BOOLEAN :
           LET task == bTasks[i]
               rest == RemoveAt(bTasks, i)
           IN  /\ goesOn => task.at < Len(Awaits(task.fn))
               /\ ~goesOn => (task.fn = "trimLogs" \/ task.at = Len(Awaits(task.fn)))
               /\ bTasks' =
                      IF goesOn THEN Append(rest, [task EXCEPT !.at = @ + 1])
                      ELSE IF task.fn = "initialize"
                           THEN rest \o (IF bQueue > 0 THEN <<Task("addLog")>> ELSE <<>>)
                                     \o <<Task("trimLogs")>>
                           ELSE rest
               /\ bReady' = (bReady \/ task.fn = "initialize")
               /\ bQueue' = IF task.fn = "initialize" THEN 0 ELSE bQueue
    /\ UNCHANGED <<bKind, bClient, bLogs, bThrown, bUnhandled, bReported>>

\* the call an async function awaits is rejected (or raises when it is
\* made): caught and reported inside a try block, and otherwise the
\* rejection of a promise nobody awaits
BoundaryReject ==
    /\ bndOnly
    /\ \E i \in DOMAIN bTasks :
           LET task == bTasks[i]
               awaited == Awaits(task.fn)[task.at]
           IN  /\ bTasks' = RemoveAt(bTasks, i)
               /\ bReported' = (bReported \/ Guarded(awaited))
               /\ bUnhandled' = (bUnhandled \/ ~Guarded(awaited))
    /\ UNCHANGED <<bKind, bClient, bReady, bQueue, bLogs, bThrown>>

BoundaryNext ==
    \/ BoundaryLog
    \/ BoundaryFulfil
    \/ BoundaryReject

(***************************************************************************)
(* The request of the HTTP transport (http.transport.ts).                  *)
(***************************************************************************)
\* an options.headers: not given, or an object from header names to values
NoHeaders == [given |-> FALSE, map |-> EmptyContext]

Headers(map) == [given |-> TRUE, map |-> map]

\* the default of the constructor: { "Content-Type": "application/json" }
DefaultHeaders == [n \in {"Content-Type"} |-> "application/json"]

\* constructor: this.headers = options.headers || { "Content-Type": ... }
HttpHeaders(option) == IF option.given THEN option.map ELSE DefaultHeaders

\* the arguments of fetch() in sendBatch
fetchRequest(endpoint, headers, batchToSend) ==
    [url |-> endpoint,
     method |-> "POST",
     headers |-> headers,
     body |-> JSONstringify(batchToSend)]

\* the options.headers the constructor is called with
HeaderInputs ==
    {NoHeaders,
     Headers(EmptyContext),
     Headers([n \in {"Authorization"} |-> "Bearer A"]),
     Headers([n \in {"Content-Type"} |-> "text/plain"]),
     Headers([n \in {"Authorization", "X-App"} |-> "v"])}

\* the buffers sendBatch finds and sends: one entry to MaxWire entries
WireBatches ==
    UNION {[1..n -> {LogEntry(1, m) : m \in Metadata} \cup {LogEntry(2, Undefined)}] :
              n \in 1..MaxWire}

\* a transport constructed with an endpoint and headers, and its buffer
WireInit ==
    /\ fnArgs \in [endpoint : {"https://a", "https://b"},
                   headers : HeaderInputs,
                   batch : WireBatches]
    /\ fnResult = <<>>

\* sendBatch() of the transport constructed with fnArgs, to its fetch()
WireSend ==
    /\ fnOnly
    /\ fnResult = <<>>
    /\ fnResult' = <<fetchRequest(fnArgs.endpoint, HttpHeaders(fnArgs.headers),
                                  fnArgs.batch)>>
    /\ UNCHANGED fnArgs

WireNext == WireSend

(***************************************************************************)
(* getLogs of the IndexedDB transport (part_008), over a Dexie collection. *)
(***************************************************************************)
\* a row of db.logs as getLogs reads it: the key, and the two indexed fields
LogRow(key, timestamp, level) ==
    [key |-> key, timestamp |-> timestamp, level |-> level]

\* an option of getLogs that is not given
NoLimit == 0 - 1
NoDate == 0

\* db.logs.orderBy("timestamp"): a collection over the timestamp index, in
\* the direction of the index and without a limit
orderBy(rows) == [rows |-> rows, dir |-> "next", limit |-> NoLimit]

\* Collection.filter(): the rows the collection yields are narrowed to those
\* the callback passes
filter(c, passing) == [c EXCEPT !.rows = @ \cap passing]

\* Collection.limit(n): the collection's limit is set, no row is read
limit(c, n) == [c EXCEPT !.limit = IF @ = NoLimit \/ n < @ THEN n ELSE @]

\* Collection.reverse(): the direction of the collection is turned
reverse(c) == [c EXCEPT !.dir = IF @ = "next" THEN "prev" ELSE "next"]

\* Collection.toArray(): the index is walked in the collection's direction
\* and the rows that pass the filters are collected up to the limit
toArray(c) ==
    LET Before(r, q) == IF c.dir = "next" THEN IndexBefore(r, q)
                                          ELSE IndexBefore(q, r)
        place(r) == Cardinality({x \in c.rows : Before(x, r)}) + 1
        count == IF c.limit = NoLimit \/ c.limit > Cardinality(c.rows)
                 THEN Cardinality(c.rows)
                 ELSE c.limit
    IN  [i \in 1..count |-> CHOOSE r \in c.rows : place(r) = i]

\* getLogs(options) of a transport with these isClient and initialized
\* fields, whose store holds these rows
getLogs(client, ready, rows, options) ==
    IF ~client \/ ~ready
    THEN <<>>
    ELSE LET q0 == orderBy(rows)
             q1 == IF options.level # Undefined
                   THEN filter(q0, {log \in rows : log.level = options.level})
                   ELSE q0
             q2 == IF options.fromDate # NoDate
                   THEN filter(q1, {log \in rows : log.timestamp >= options.fromDate})
                   ELSE q1
             q3 == IF options.toDate # NoDate
                   THEN filter(q2, {log \in rows : log.timestamp <= options.toDate})
                   ELSE q2
             q4 == IF options.limit # NoLimit /\ options.limit # 0
                   THEN limit(q3, options.limit)
                   ELSE q3
         IN  toArray(reverse(q4))

\* getRecentLogs(count): getLogs({ limit: count })
getRecentLogs(client, ready, rows, count) ==
    getLogs(client, ready, rows,
            [limit |-> count, level |-> Undefined, fromDate |-> NoDate,
             toDate |-> NoDate])

\* the stores getLogs is called on: up to MaxRows rows, keys in the order of
\* insertion, timestamps that never go back from one row to the next
GetLogsStores ==
    UNION {{{LogRow(k, t[k], l[k]) : k \in 1..n} :
               t \in {f \in [1..n -> 1..MaxStamp] :
                         \A k \in 1..n : k > 1 => f[k - 1] <= f[k]},
               l \in [1..n -> {"info", "error"}]} :
              n \in 0..MaxRows}

\* the options getLogs is called with
GetLogsOptions ==
    [limit : {NoLimit} \cup 0..MaxRows,
     level : {Undefined, "error"},
     fromDate : {NoDate} \cup 1..MaxStamp,
     toDate : {NoDate} \cup 1..MaxStamp]

\* a transport in the browser with its store, before or after open() resolved
GetLogsInit ==
    /\ fnArgs \in [ready : BOOLEAN, rows : GetLogsStores,
                   options : GetLogsOptions, recent : BOOLEAN]
    /\ fnArgs.recent =>
          /\ fnArgs.options.level = Undefined
          /\ fnArgs.options.fromDate = NoDate
          /\ fnArgs.options.toDate = NoDate
          /\ fnArgs.options.limit # NoLimit
    /\ fnResult = <<>>

\* getLogs(options), or getRecentLogs(options.limit), is called and resolves
GetLogsCall ==
    /\ fnOnly
    /\ fnResult = <<>>
    /\ fnResult' =
          <<IF fnArgs.recent
            THEN getRecentLogs(TRUE, fnArgs.ready, fnArgs.rows,
                               fnArgs.options.limit)
            ELSE getLogs(TRUE, fnArgs.ready, fnArgs.rows, fnArgs.options)>>
    /\ UNCHANGED fnArgs

GetLogsNext == GetLogsCall

(***************************************************************************)
(* The objects of the Context Store (context.ts): the object the field     *)
(* contextData refers to, and the objects the caller passes to set and add *)
(* and is returned by get, which the caller may change at any time.        *)
(***************************************************************************)
ObjectIds == 1..MaxHeap

\* a place of the heap: unused, or an object with its own properties
NoObject == [live |-> FALSE, map |-> EmptyContext]

Object(map) == [live |-> TRUE, map |-> map]

\* an object literal evaluates to a new object: one for which there is room
HasRoom(heap) == \E o \in ObjectIds : ~heap[o].live

NewId(heap) ==
    CHOOSE o \in ObjectIds :
        ~heap[o].live /\ \A p \in ObjectIds : p < o => heap[p].live

\* an object that neither the field nor the caller refers to is gone
Collect(heap, field, held) ==
    [o \in ObjectIds |-> IF o = field \/ o \in held THEN heap[o] ELSE NoObject]

\* fnResult of the Context Store: the call that ran last, the map get()
\* returned, and the map the calls so far give
StoreOp(name, returned, expected) ==
    [name |-> name, returned |-> returned, expected |-> expected]

\* private contextData: Record<string, any> = {}
StoreInit ==
    /\ fnArgs = [heap |-> [o \in ObjectIds |->
                              IF o = 1 THEN Object(EmptyContext) ELSE NoObject],
                 contextData |-> 1,
                 held |-> {}]
    /\ fnResult = <<StoreOp("new", EmptyContext, EmptyContext)>>

\* the caller makes an object
CallerNew ==
    /\ fnOnly
    /\ HasRoom(fnArgs.heap)
    /\ \E map \in Contexts :
          LET o == NewId(fnArgs.heap)
          IN  fnArgs' = [fnArgs EXCEPT !.heap[o] = Object(map),
                                       !.held = @ \cup {o}]
    /\ fnResult' = <<StoreOp("callerNew", EmptyContext, fnResult[1].expected)>>

\* the caller changes an object it holds: one it passed to set or add
\* before, or one get returned
CallerMutate ==
    /\ fnOnly
    /\ \E h \in fnArgs.held, map \in Contexts :
          /\ map # fnArgs.heap[h].map
          /\ fnArgs' = [fnArgs EXCEPT !.heap[h].map = map]
    /\ fnResult' = <<StoreOp("callerMutate", EmptyContext, fnResult[1].expected)>>

\* the caller lets go of an object
CallerDrop ==
    /\ fnOnly
    /\ \E h \in fnArgs.held :
          LET held == fnArgs.held \ {h}
          IN  fnArgs' = [fnArgs EXCEPT
                            !.held = held,
                            !.heap = Collect(@, fnArgs.contextData, held)]
    /\ fnResult' = <<StoreOp("callerDrop", EmptyContext, fnResult[1].expected)>>

\* "this.contextData = { ...context }": what the field refers to after it
Assigned_Same(new, context) == context

Assigned(new, context) == new

\* set(context): this.contextData = { ...context }
StoreSet ==
    /\ fnOnly
    /\ HasRoom(fnArgs.heap)
    /\ \E context \in fnArgs.held :
          LET o == NewId(fnArgs.heap)
              heap == [fnArgs.heap EXCEPT
                          ![o] = Object(Spread(EmptyContext, fnArgs.heap[context].map))]
              field == Assigned(o, context)
          IN  /\ fnArgs' = [fnArgs EXCEPT
                               !.contextData = field,
                               !.heap = Collect(heap, field, fnArgs.held)]
              /\ fnResult' = <<StoreOp("set", EmptyContext,
                                       fnArgs.heap[context].map)>>

\* add(context): this.contextData = { ...this.contextData, ...context }
StoreAdd ==
    /\ fnOnly
    /\ HasRoom(fnArgs.heap)
    /\ \E context \in fnArgs.held :
          LET o == NewId(fnArgs.heap)
              given == fnArgs.heap[context].map
              heap == [fnArgs.heap EXCEPT
                          ![o] = Object(Spread(fnArgs.heap[fnArgs.contextData].map,
                                               given))]
              was == fnResult[1].expected
          IN  /\ fnArgs' = [fnArgs EXCEPT
                               !.contextData = o,
                               !.heap = Collect(heap, o, fnArgs.held)]
              /\ fnResult' =
                    <<StoreOp("add", EmptyContext,
                              [k \in DOMAIN was \cup DOMAIN given |->
                                  IF k \in DOMAIN given THEN given[k] ELSE was[k]])>>

\* remove(keys): for (const key of keys) delete this.contextData[key]
StoreRemove ==
    /\ fnOnly
    /\ \E keys \in SUBSET Keys :
          LET was == fnResult[1].expected
          IN  /\ fnArgs' = [fnArgs EXCEPT
                               !.heap[fnArgs.contextData].map = Delete(@, keys)]
              /\ fnResult' =
                    <<StoreOp("remove", EmptyContext,
                              [k \in {x \in DOMAIN was : x \notin keys} |-> was[k]])>>

\* clear(): this.contextData = {}
StoreClear ==
    /\ fnOnly
    /\ HasRoom(fnArgs.heap)
    /\ LET o == NewId(fnArgs.heap)
           heap == [fnArgs.heap EXCEPT ![o] = Object(EmptyContext)]
       IN  fnArgs' = [fnArgs EXCEPT
                         !.contextData = o,
                         !.heap = Collect(heap, o, fnArgs.held)]
    /\ fnResult' = <<StoreOp("clear", EmptyContext, EmptyContext)>>

\* get(): return { ...this.contextData }
StoreGet ==
    /\ fnOnly
    /\ HasRoom(fnArgs.heap)
    /\ LET o == NewId(fnArgs.heap)
           copy == Spread(EmptyContext, fnArgs.heap[fnArgs.contextData].map)
       IN  /\ fnArgs' = [fnArgs EXCEPT !.heap[o] = Object(copy),
                                       !.held = @ \cup {o}]
           /\ fnResult' = <<StoreOp("get", copy, fnResult[1].expected)>>

StoreNext ==
    \/ CallerNew
    \/ CallerMutate
    \/ CallerDrop
    \/ StoreSet
    \/ StoreAdd
    \/ StoreRemove
    \/ StoreClear
    \/ StoreGet

(***************************************************************************)
(* The promise flush() returns (http.transport.ts): "await sendBatch()",   *)
(* followed beside the operations of the HTTP transport.  fnArgs is the    *)
(* flush() call that is followed, fnResult what was found when its promise *)
(* resolved.  The first flush() call of a behaviour is followed.           *)
(***************************************************************************)
\* no flush() call is followed
NoFlush == [called |-> FALSE, before |-> 0, request |-> <<>>]

\* a flush() call made after this many log() calls, whose sendBatch awaits
\* the fetch() of this batchToSend (none for an empty buffer)
FlushCalled(before, request) ==
    [called |-> TRUE, before |-> before, request |-> request]

\* the ids of the entries in the unsettled requests
InRequests(requests) ==
    UNION {{requests[i].batchToSend[k].id : k \in DOMAIN requests[i].batchToSend} :
              i \in DOMAIN requests}

\* the ids of the entries in the bodies of the requests answered ok
InBodies(bodies) ==
    UNION {{bodies[i][k].id : k \in DOMAIN bodies[i]} : i \in DOMAIN bodies}

\* what is found when the promise of a flush() resolves
FlushResolved(before, requests, buffer, bodies) ==
    [before |-> before,
     unfinished |-> InRequests(requests),
     buffered |-> {buffer[k].id : k \in DOMAIN buffer},
     delivered |-> InBodies(bodies)]

\* flush(): sendBatch() returns at once for an empty buffer, and the promise
\* resolves; otherwise it resolves when the fetch() of this call's request
\* has settled and sendBatch's try or catch has run
FlushTrack ==
    IF op' = "flush" /\ ~fnArgs.called /\ fnResult = <<>>
    THEN IF batch = <<>>
         THEN /\ fnResult' = <<FlushResolved(Len(logged), inflight', batch',
                                             delivered')>>
              /\ UNCHANGED fnArgs
         ELSE /\ fnArgs' = FlushCalled(Len(logged), batch)
              /\ UNCHANGED fnResult
    ELSE IF /\ fnArgs.called
            /\ op' \in {"ok", "status", "reject"}
            /\ settled' = fnArgs.request
         THEN /\ fnResult' = <<FlushResolved(fnArgs.before, inflight', batch',
                                             delivered')>>
              /\ fnArgs' = NoFlush
         ELSE UNCHANGED fnVars

FlushInit == fnArgs = NoFlush /\ fnResult = <<>>

flushOnly ==
    UNCHANGED <<memVars, lsVars, idbVars, loggerVars, mgrVars, bndVars>>

FlushLog == flushOnly /\ HttpLogStep /\ FlushTrack

FlushTimer == flushOnly /\ HttpTimerStep /\ FlushTrack

FlushFlush == flushOnly /\ HttpFlushStep /\ FlushTrack

FlushDispose == flushOnly /\ HttpDisposeStep /\ FlushTrack

FlushResolveOk == flushOnly /\ HttpResolveOkStep /\ FlushTrack

FlushResolveStatus == flushOnly /\ HttpResolveStatusStep /\ FlushTrack

FlushReject == flushOnly /\ HttpRejectStep /\ FlushTrack

FlushNext ==
    \/ FlushLog
    \/ FlushTimer
    \/ FlushFlush
    \/ FlushDispose
    \/ FlushResolveOk
    \/ FlushResolveStatus
    \/ FlushReject

(***************************************************************************)
(* The localStorage transport (part_008) with a storage that fails: each   *)
(* of getItem, setItem and removeItem may throw (access denied, quota      *)
(* exceeded), and the text under the key may be one that other code wrote, *)
(* which JSON.parse or unshift rejects.  fnResult is the call that ran     *)
(* last: whether a statement of its try block threw, and the storage       *)
(* before it.                                                              *)
(***************************************************************************)
\* a text under the key that is not the JSON text of an array
NotAnArray == <<[text |-> "{"]>>

\* JSON.parse(existingLogsJson) and existingLogs.unshift(newLog) go through
Parses(text) == \A i \in DOMAIN text : "id" \in DOMAIN text[i]

\* where a call of log() or clear() may throw
LSFaults == {"none", "getItem", "setItem", "removeItem"}

\* setItem(key, value) on a storage
setItem(storage, key, value) ==
    [k \in DOMAIN storage \cup {key} |-> IF k = key THEN value ELSE storage[k]]

\* the try block of log() with a catch that starts the list anew when the
\* stored text cannot be read
LSTryLog_StartAnew(storage, newLog, max, fault) ==
    IF fault = "getItem"
    THEN [storage |-> storage, failed |-> TRUE]
    ELSE LET text == getItemOrEmpty(storage, lsKey)
             existingLogs == IF Parses(text) THEN JSONparse(text) ELSE <<>>
             kept == LSAddNewLog(existingLogs, newLog, max)
         IN  IF fault = "setItem"
             THEN [storage |-> storage, failed |-> TRUE]
             ELSE [storage |-> setItem(storage, lsKey, JSONstringify(kept)),
                   failed |-> ~Parses(text)]

\* the try block of log(): the statement that throws ends it, and the catch
\* reports the error
LSTryLog(storage, newLog, max, fault) ==
    IF fault = "getItem"
    THEN [storage |-> storage, failed |-> TRUE]
    ELSE LET text == getItemOrEmpty(storage, lsKey)
         IN  IF ~Parses(text)
             THEN [storage |-> storage, failed |-> TRUE]
             ELSE LET kept == LSAddNewLog(JSONparse(text), newLog, max)
                  IN  IF fault = "setItem"
                      THEN [storage |-> storage, failed |-> TRUE]
                      ELSE [storage |-> setItem(storage, lsKey,
                                                JSONstringify(kept)),
                            failed |-> FALSE]

\* the try block of clear()
LSTryClear(storage, fault) ==
    IF fault = "removeItem"
    THEN [storage |-> storage, failed |-> TRUE]
    ELSE [storage |-> [k \in DOMAIN storage \ {lsKey} |-> storage[k]],
          failed |-> FALSE]

\* fnResult: the call, whether it failed, and the storage it found
LSCall(name, failed, was) == <<[name |-> name, failed |-> failed, was |-> was]>>

\* a transport in a browser; the key is not set, or holds another's text
LSFailInit ==
    /\ lsIsClient = TRUE
    /\ \E option \in 0..MaxLogsOpt : lsMaxLogs = LSMaxLogs(option)
    /\ localStorage \in {EmptyStorage, setItem(EmptyStorage, lsKey, NotAnArray)}
    /\ lsCalls = 0
    /\ lsSince = <<>>
    /\ lsOp = "new"
    /\ fnArgs = "none"
    /\ fnResult = <<>>

lsFailOnly ==
    UNCHANGED <<httpVars, memVars, idbVars, loggerVars, mgrVars, bndVars>>

\* log(level, message, metadata, context)
LSFailLog ==
    /\ lsFailOnly
    /\ lsCalls < MaxLSLog
    /\ lsCalls' = lsCalls + 1
    /\ lsOp' = "log"
    /\ \E m \in Metadata, fault \in LSFaults \ {"removeItem"} :
         LET newLog == LogEntry(lsCalls + 1, m)
             r == LSTryLog(localStorage, newLog, lsMaxLogs, fault)
         IN  /\ localStorage' = r.storage
             /\ lsSince' = IF r.failed THEN lsSince ELSE Append(lsSince, newLog)
             /\ fnResult' = LSCall("log", r.failed, localStorage)
    /\ UNCHANGED <<lsIsClient, lsMaxLogs, fnArgs>>

\* clear()
LSFailClear ==
    /\ lsFailOnly
    /\ lsOp' = "clear"
    /\ \E fault \in {"none", "removeItem"} :
         LET r == LSTryClear(localStorage, fault)
         IN  /\ localStorage' = r.storage
             /\ lsSince' = IF r.failed THEN lsSince ELSE <<>>
             /\ fnResult' = LSCall("clear", r.failed, localStorage)
    /\ UNCHANGED <<lsIsClient, lsMaxLogs, lsCalls, fnArgs>>

LSFailNext ==
    \/ LSFailLog
    \/ LSFailClear

(***************************************************************************)
(* The loops of LoggerManager.stack (manager.ts), with the transports      *)
(* arrays as objects: the array of DEFAULT_CONFIG, which the Logger of the *)
(* default factory takes as its own (new Logger(config): this.transports = *)
(* options.transports), and the array each built-in factory makes.  fnArgs *)
(* is the manager with a stack() call in progress, fnResult what the       *)
(* stack() calls returned.                                                 *)
(***************************************************************************)
\* the names a stack lists: two registered drivers and one that is not
LoopDrivers == {"console", "memory", "syslog"}

\* the stacks createStack defined: lists of up to MaxDrivers names
LoopStacks == UNION {[1..n -> LoopDrivers] : n \in 0..MaxDrivers}

\* the array that is the transports of the Logger instance(name) returns:
\* the one its factory made, or for the default factory that of
\* DEFAULT_CONFIG
ArrayOf(name) == IF name \in BuiltInDrivers THEN name ELSE "DEFAULT_CONFIG"

LoopArrays == {ArrayOf(n) : n \in LoopDrivers}

\* the model follows the last elements of an array, up to this many, which
\* is more than a stack() call whose loops end leaves in an array
LoopLimit == MaxStackCalls * MaxDrivers + 2

\* const DEFAULT_CONFIG = { .., transports: [new ConsoleTransport()] }
LoopInit ==
    /\ fnArgs \in [drivers : LoopStacks,
                   arrays : {[a \in LoopArrays |->
                                IF a = "DEFAULT_CONFIG" THEN <<"ConsoleTransport">>
                                ELSE <<>>]},
                   instances : {{}},
                   pc : {"idle"},
                   logger : {"DEFAULT_CONFIG"},
                   before : {<<>>},
                   i : {1},
                   j : {1},
                   turns : {0},
                   calls : {0}]
    /\ fnResult = <<>>

\* stack(name) to its loop: const logger = this.driver(drivers[0]), which is
\* the cached Logger or the one the factory makes now
StackCall ==
    /\ fnOnly
    /\ fnArgs.pc = "idle"
    /\ fnArgs.calls < MaxStackCalls
    /\ LET first == IF fnArgs.drivers = <<>> THEN "console" ELSE fnArgs.drivers[1]
           array == ArrayOf(first)
           made == IF first \in fnArgs.instances \/ first \notin BuiltInDrivers
                     THEN fnArgs.arrays
                     ELSE [fnArgs.arrays EXCEPT ![array] = <<FactoryTransport(first)>>]
       IN  fnArgs' = [fnArgs EXCEPT !.arrays = made,
                                    !.instances = @ \cup {first},
                                    !.pc = "for",
                                    !.logger = array,
                                    !.before = made[array],
                                    !.i = 2,
                                    !.j = 1,
                                    !.turns = 0,
                                    !.calls = @ + 1]
    /\ UNCHANGED fnResult

\* an array longer than LoopLimit is followed by its last LoopLimit elements
Window(array) == IF Len(array) > LoopLimit THEN Tail(array) ELSE array

\* one turn of "for (const transport of driverConfig.transports)
\* logger.addTransport(transport)", where driverConfig.transports is the
\* array of DEFAULT_CONFIG (getInstanceConfig: { ...DEFAULT_CONFIG }); after
\* the last element, the next turn of "for (let i = 1; ..; i++)".  j is the
\* iterator's place in what is followed of the array, turns the parity of
\* the turns the for...of loop has taken in this call
StackFor ==
    /\ fnOnly
    /\ fnArgs.pc = "for"
    /\ fnArgs.i <= Len(fnArgs.drivers)
    /\ LET transports == fnArgs.arrays["DEFAULT_CONFIG"]
           pushed == Append(fnArgs.arrays[fnArgs.logger], transports[fnArgs.j])
       IN  IF fnArgs.j <= Len(transports)
           THEN fnArgs' = [fnArgs EXCEPT
                              !.arrays[fnArgs.logger] = Window(pushed),
                              !.j = IF fnArgs.logger = "DEFAULT_CONFIG"
                                       /\ Len(pushed) > LoopLimit
                                    THEN @ ELSE @ + 1,
                              !.turns = 1 - @]
           ELSE fnArgs' = [fnArgs EXCEPT !.i = @ + 1, !.j = 1]
    /\ UNCHANGED fnResult

\* return logger
StackReturn ==
    /\ fnOnly
    /\ fnArgs.pc = "for"
    /\ fnArgs.i > Len(fnArgs.drivers)
    /\ fnArgs' = [fnArgs EXCEPT !.pc = "idle"]
    /\ fnResult' = Append(fnResult,
                          [before |-> fnArgs.before,
                           transports |-> fnArgs.arrays[fnArgs.logger]])

LoopNext ==
    \/ StackCall
    \/ StackFor
    \/ StackReturn

(***************************************************************************)
(* The promise clear() returns (IndexedDBTransport), followed beside the   *)
(* operations of the transport.  fnArgs is the number of log() calls made  *)
(* before the clear() call whose db.logs.clear() is awaited, fnResult the  *)
(* number made before the last clear() call that has returned.             *)
(***************************************************************************)
ClearInit == fnArgs = 0 /\ fnResult = <<>>

clearOnly == UNCHANGED <<httpVars, memVars, lsVars, loggerVars, mgrVars, bndVars>>

\* clear() is called: "if (!this.isClient || !this.initialized) return"
\* returns at once, otherwise db.logs.clear() is awaited
ClearCalled ==
    /\ clearOnly
    /\ IdbClearStep
    /\ IF ~idbIsClient \/ ~initialized
       THEN fnResult' = <<idbCalls>> /\ UNCHANGED fnArgs
       ELSE fnArgs' = idbCalls /\ UNCHANGED fnResult

\* db.logs.clear() resolves and clear() returns
ClearResolved ==
    /\ clearOnly
    /\ IdbClearedStep
    /\ fnResult' = <<fnArgs>>
    /\ UNCHANGED fnArgs

\* db.logs.clear() rejects: the catch reports it and clear() returns
ClearRejected ==
    /\ clearOnly
    /\ IdbClearFailedStep
    /\ fnResult' = <<fnArgs>>
    /\ UNCHANGED fnArgs

IdbClearNext ==
    \/ IdbLog
    \/ IdbOpened
    \/ IdbOpenFailed
    \/ IdbAdd
    \/ IdbAddFailed
    \/ IdbCount
    \/ IdbToArray
    \/ IdbBulkDelete
    \/ IdbTrimFailed
    \/ ClearCalled
    \/ ClearResolved
    \/ ClearRejected

(***************************************************************************)
(* Specifications.  The transports share nothing, so each is checked by    *)
(* itself: in the specification of one transport the others stay as they   *)
(* are when constructed with no options outside a browser.                 *)
(***************************************************************************)
HttpUnused ==
    /\ isClient = FALSE
    /\ batchSize = HttpBatchSize(0)
    /\ batch = <<>>
    /\ timer = startTimer(FALSE, FALSE)
    /\ inflight = <<>>
    /\ delivered = <<>>
    /\ refused = <<>>
    /\ logged = <<>>
    /\ fresh = 0
    /\ op = "new"
    /\ settled = <<>>

MemUnused ==
    /\ memMaxLogs = MemMaxLogs(0)
    /\ memLogs = <<>>
    /\ memCalls = 0
    /\ memSince = <<>>

LSUnused ==
    /\ lsIsClient = FALSE
    /\ lsMaxLogs = LSMaxLogs(0)
    /\ localStorage = EmptyStorage
    /\ lsCalls = 0
    /\ lsSince = <<>>
    /\ lsOp = "new"

IdbUnused ==
    /\ idbIsClient = FALSE
    /\ idbMaxLogs = IdbMaxLogs(0)
    /\ initialized = FALSE
    /\ queue = <<>>
    /\ initPc = "none"
    /\ queueCopy = <<>>
    /\ store = {}
    /\ pending = <<>>
    /\ idbClock = 0
    /\ idbCalls = 0
    /\ cleared = FALSE
    /\ everQueued = {}
    /\ inserted = <<>>
    /\ addFailed = {}
    /\ trimFailed = FALSE

LoggerUnused ==
    /\ contextData = EmptyContext
    /\ loggers = <<>>
    /\ arrays = [a \in ArrayIds |-> <<>>]
    /\ lgOp = Op("none", 0, 0)
    /\ lastCall = NoCall

MgrUnused ==
    /\ instances = [k \in {} |-> 0]
    /\ objects = <<>>
    /\ stacks = [k \in {} |-> <<>>]
    /\ mgrCalls = <<>>
    /\ mgrOp = "none"

BoundaryUnused ==
    /\ bKind = "console"
    /\ bClient = FALSE
    /\ bReady = FALSE
    /\ bQueue = 0
    /\ bTasks = <<>>
    /\ bLogs = 0
    /\ bThrown = FALSE
    /\ bUnhandled = FALSE
    /\ bReported = FALSE

FnUnused ==
    /\ fnArgs = "none"
    /\ fnResult = <<>>

InitHttp ==
    /\ HttpInit /\ MemUnused /\ LSUnused /\ IdbUnused
    /\ LoggerUnused /\ MgrUnused /\ BoundaryUnused /\ FnUnused
InitMem ==
    /\ MemInit /\ HttpUnused /\ LSUnused /\ IdbUnused
    /\ LoggerUnused /\ MgrUnused /\ BoundaryUnused /\ FnUnused
InitLS ==
    /\ LSInit /\ HttpUnused /\ MemUnused /\ IdbUnused
    /\ LoggerUnused /\ MgrUnused /\ BoundaryUnused /\ FnUnused
InitIdb ==
    /\ IdbInit /\ HttpUnused /\ MemUnused /\ LSUnused
    /\ LoggerUnused /\ MgrUnused /\ BoundaryUnused /\ FnUnused
InitLogger ==
    /\ LoggerInit /\ HttpUnused /\ MemUnused /\ LSUnused
    /\ IdbUnused /\ MgrUnused /\ BoundaryUnused /\ FnUnused
InitContext ==
    /\ ContextInit /\ HttpUnused /\ MemUnused /\ LSUnused
    /\ IdbUnused /\ MgrUnused /\ BoundaryUnused /\ FnUnused
InitMgr ==
    /\ MgrInit /\ HttpUnused /\ MemUnused /\ LSUnused
    /\ IdbUnused /\ LoggerUnused /\ BoundaryUnused /\ FnUnused
InitBoundary ==
    /\ BoundaryInit /\ HttpUnused /\ MemUnused /\ LSUnused
    /\ IdbUnused /\ LoggerUnused /\ MgrUnused /\ FnUnused
InitWire ==
    /\ WireInit /\ HttpUnused /\ MemUnused /\ LSUnused /\ IdbUnused
    /\ LoggerUnused /\ MgrUnused /\ BoundaryUnused

InitGetLogs ==
    /\ GetLogsInit /\ HttpUnused /\ MemUnused /\ LSUnused /\ IdbUnused
    /\ LoggerUnused /\ MgrUnused /\ BoundaryUnused
InitStore ==
    /\ StoreInit /\ HttpUnused /\ MemUnused /\ LSUnused /\ IdbUnused
    /\ LoggerUnused /\ MgrUnused /\ BoundaryUnused
InitFlush ==
    /\ HttpInit /\ FlushInit /\ MemUnused /\ LSUnused /\ IdbUnused
    /\ LoggerUnused /\ MgrUnused /\ BoundaryUnused
InitLSFail ==
    /\ LSFailInit /\ HttpUnused /\ MemUnused /\ IdbUnused
    /\ LoggerUnused /\ MgrUnused /\ BoundaryUnused
InitLoop ==
    /\ LoopInit /\ HttpUnused /\ MemUnused /\ LSUnused /\ IdbUnused
    /\ LoggerUnused /\ MgrUnused /\ BoundaryUnused
InitIdbClear ==
    /\ IdbInit /\ ClearInit /\ HttpUnused /\ MemUnused /\ LSUnused
    /\ LoggerUnused /\ MgrUnused /\ BoundaryUnused

SpecHttp == InitHttp /\ [][HttpNext]_vars
SpecMem == InitMem /\ [][MemNext]_vars
SpecLS == InitLS /\ [][LSNext]_vars
SpecIdb == InitIdb /\ [][IdbNext]_vars
SpecFanOut == InitLogger /\ [][FanOutNext]_vars
SpecLevels == InitLogger /\ [][LevelsNext]_vars
SpecContext == InitContext /\ [][ContextNext]_vars
SpecMgr == InitMgr /\ [][MgrNext]_vars
SpecBoundary == InitBoundary /\ [][BoundaryNext]_vars
SpecDrivers == InitMgr /\ [][DriversNext]_vars
SpecWire == InitWire /\ [][WireNext]_vars
SpecGetLogs == InitGetLogs /\ [][GetLogsNext]_vars
SpecStore == InitStore /\ [][StoreNext]_vars
SpecFlush == InitFlush /\ [][FlushNext]_vars
\* the interval timer fires again and again while it is set, and every
\* fetch() settles
SpecHttpLive ==
    /\ InitHttp
    /\ [][HttpNext]_vars
    /\ WF_vars(HttpTimer)
    /\ WF_vars(HttpResolveOk \/ HttpResolveStatus \/ HttpReject)
SpecLSFail == InitLSFail /\ [][LSFailNext]_vars
SpecIdbClear == InitIdbClear /\ [][IdbClearNext]_vars
SpecDerive == InitContext /\ [][DeriveNext]_vars
SpecAnyLevel == InitLogger /\ [][AnyLevelNext]_vars
SpecStackLoop == InitLoop /\ [][LoopNext]_vars
\* a loop that has another turn to take takes it
SpecStackLoopLive == SpecStackLoop /\ WF_vars(StackFor) /\ WF_vars(StackReturn)

(***************************************************************************)
(* Properties of the HTTP transport.                                       *)
(***************************************************************************)
Last(s) == s[Len(s)]

\* the last n elements of a sequence
Tail_n(s, n) == SubSeq(s, Len(s) - n + 1, Len(s))

\* how many times the entry with this id occurs in a sequence of entries or
\* of entry texts
Occurrences(entries, id) ==
    Cardinality({i \in DOMAIN entries : entries[i].id = id})

\* the same, summed over a sequence of sequences
OccurrencesIn(lists, id) ==
    Cardinality({p \in (DOMAIN lists) \X (1..MaxLog) :
                   /\ p[2] \in DOMAIN lists[p[1]]
                   /\ lists[p[1]][p[2]].id = id})

InBuffer(id) == Occurrences(batch, id)

InFlight(id) ==
    OccurrencesIn([r \in DOMAIN inflight |-> inflight[r].batchToSend], id)

Delivered(id) == OccurrencesIn(delivered, id)

\* C1: as long as every failure was a rejected request (no request was answered
\* with a failure status), every logged entry is in exactly one place: the
\* buffer, one request in flight, or the body of one successful request.
C1_ExactlyOnePlace ==
    refused = <<>> =>
        \A id \in 1..Len(logged) :
            InBuffer(id) + InFlight(id) + Delivered(id) = 1

\* a rejected request put two or more entries back while another batch had
\* been delivered
C1_Witness ==
    /\ op = "reject"
    /\ refused = <<>>
    /\ Len(settled) >= 2
    /\ delivered # <<>>
    /\ \A i \in DOMAIN settled : InBuffer(settled[i].id) = 1

\* C2: after a request ended in failure (a failure status, or a rejection),
\* every entry of its batch is back in the buffer.
C2_FailedBatchBackInBuffer ==
    op \in {"status", "reject"} =>
        \A i \in DOMAIN settled : InBuffer(settled[i].id) >= 1

\* C3: the buffer is in insertion order: of two buffered entries the one
\* logged earlier comes first.
C3_BufferInInsertionOrder ==
    \A i, j \in DOMAIN batch : i < j => batch[i].id < batch[j].id

\* C4: starting from an empty buffer with no send in flight, the log() call
\* that brings the buffered count to batchSize starts exactly one request,
\* whose batch is exactly the batchSize entries logged since, in log order,
\* sent as their JSON text, and leaves the buffer empty; a log() call that
\* leaves the count below batchSize starts no request.
C4_SizeTrigger ==
    [][(op' = "log" /\ logged' # logged /\ fresh >= 0) =>
         IF fresh + 1 = batchSize
         THEN /\ batch' = <<>>
              /\ inflight' =
                   <<[batchToSend |-> Tail_n(logged', batchSize),
                      body |-> JSONstringify(Tail_n(logged', batchSize))]>>
         ELSE /\ fresh + 1 < batchSize
              /\ inflight' = <<>>
              /\ batch' = Tail_n(logged', fresh + 1)
      ]_vars

\* the batchSize-th log() call on a new transport has just started a request
C4_Witness ==
    /\ op = "log"
    /\ batchSize >= 2
    /\ Len(logged) = batchSize
    /\ batch = <<>>
    /\ Len(inflight) = 1
    /\ inflight[1].batchToSend = logged
    /\ delivered = <<>> /\ refused = <<>>

\* C5: when the timer fires on a buffer holding the k records logged since it
\* was empty with no send in flight (1 <= k < batchSize), exactly one request
\* is started and its batch is exactly those k records in order; a timer
\* tick that finds the buffer empty starts no request.
C5_TimerTrigger ==
    [][op' = "timer" =>
         IF Len(batch) = 0
         THEN /\ inflight' = inflight
              /\ batch' = batch
         ELSE /\ batch' = <<>>
              /\ inflight' =
                   Append(inflight,
                          [batchToSend |-> batch, body |-> JSONstringify(batch)])
              /\ fresh >= 1 =>
                   /\ fresh < batchSize
                   /\ Len(inflight') = 1
                   /\ inflight'[1].batchToSend = Tail_n(logged, fresh)
      ]_vars

\* the timer fired after k < batchSize records were logged on a new transport
C5_Witness ==
    /\ op = "timer"
    /\ Len(logged) >= 1
    /\ Len(logged) < batchSize
    /\ batch = <<>>
    /\ Len(inflight) = 1
    /\ inflight[1].batchToSend = logged
    /\ delivered = <<>> /\ refused = <<>>

(***************************************************************************)
(* Properties of the memory and localStorage transports.                   *)
(***************************************************************************)
Min(a, b) == IF a < b THEN a ELSE b

Reverse(s) == [i \in DOMAIN s |-> s[Len(s) + 1 - i]]

\* C6: getLogs() of the memory transport is exactly the last min(k, maxLogs)
\* entries logged since the most recent clear() (k of them were logged),
\* oldest first, and never more than maxLogs entries are retained.
C6_MemoryRingBuffer ==
    /\ MemGetLogs = Tail_n(memSince, Min(Len(memSince), memMaxLogs))
    /\ Len(memLogs) <= memMaxLogs

\* more entries were logged since the last clear() than the cap allows, and a
\* clear() came before them
C6_Witness ==
    /\ Len(memSince) > memMaxLogs
    /\ memMaxLogs >= 2
    /\ memCalls > Len(memSince)
    /\ Len(MemGetLogs) = memMaxLogs

\* C7: in a browser, getLogs() of the localStorage transport is exactly the
\* last min(k, maxLogs) entries logged since the most recent clear(), most
\* recent first; the stored list never has more than maxLogs entries, and
\* right after clear() getLogs() is empty.
C7_LocalStorageNewestFirst ==
    lsIsClient =>
        /\ LSGetLogs = Reverse(Tail_n(lsSince, Min(Len(lsSince), lsMaxLogs)))
        /\ Len(getItemOrEmpty(localStorage, lsKey)) <= lsMaxLogs
        /\ lsOp = "clear" => LSGetLogs = <<>>

\* entries were cut from the stored list, one of them logged without metadata
C7_Witness ==
    /\ lsIsClient
    /\ lsMaxLogs >= 2
    /\ Len(lsSince) > lsMaxLogs
    /\ lsCalls > Len(lsSince)
    /\ Len(LSGetLogs) = lsMaxLogs
    /\ LSGetLogs[1].id > LSGetLogs[2].id
    /\ \E i \in DOMAIN LSGetLogs : LSGetLogs[i].metadata = Undefined

(***************************************************************************)
(* Properties of the IndexedDB transport.                                  *)
(***************************************************************************)
\* every call on the store has run and initialize() has returned
Quiescent == pending = <<>> /\ initPc \in {"done", "failed", "none"}

\* the positions at which the entry with this id was added to the store
InsertedAt(id) == {i \in DOMAIN inserted : inserted[i].id = id}

\* the adds of initialize() that have not run yet
DrainPending(id) ==
    {i \in DOMAIN pending :
        pending[i].kind = "add" /\ pending[i].init /\ pending[i].entry.id = id}

\* C8: an entry logged while the store is opening is held in the queue; after
\* the store has opened no queued entry is dropped (it waits in queueCopy, is
\* being added, was inserted, or its add failed), none is inserted twice,
\* queued entries are inserted in the order they were logged, and when the
\* queue has been drained every queued entry whose add succeeded has been
\* inserted exactly once.
C8_QueueDrainedOnce ==
    /\ initPc = "open" =>
          /\ Len(queue) = idbCalls
          /\ \A i \in DOMAIN queue : queue[i].id = i
    /\ initPc \in {"drain", "trim", "done"} =>
          \A id \in everQueued :
              Occurrences(queueCopy, id) + Cardinality(DrainPending(id))
                + Cardinality(InsertedAt(id))
                + (IF id \in addFailed THEN 1 ELSE 0) = 1
    /\ \A id \in everQueued : Cardinality(InsertedAt(id)) <= 1
    /\ \A i, j \in DOMAIN inserted :
          (inserted[i].id \in everQueued /\ inserted[j].id \in everQueued
             /\ inserted[i].id < inserted[j].id) => i < j
    /\ initPc \in {"trim", "done"} =>
          \A id \in everQueued \ addFailed : Cardinality(InsertedAt(id)) = 1

\* two entries were queued, another was logged while they were drained, and
\* every add succeeded
C8_Witness ==
    /\ initPc = "done"
    /\ Cardinality(everQueued) = 2
    /\ idbCalls = 3
    /\ addFailed = {}
    /\ Len(inserted) = 3

\* C9: once initialized, whenever every call made on the store has run and
\* initialize() has returned, the store holds at most maxLogs rows, provided
\* no call of an eviction pass failed.
C9_StoreWithinCap ==
    (initialized /\ Quiescent /\ ~trimFailed) =>
        Cardinality(store) <= idbMaxLogs

\* more entries were added than the cap allows and the evictions have run
C9_Witness ==
    /\ initialized
    /\ Quiescent
    /\ ~cleared
    /\ ~trimFailed
    /\ Len(inserted) > idbMaxLogs
    /\ Cardinality(store) = idbMaxLogs

\* the rows an eviction ought to leave: the n newest of those inserted
NewestInserted(n) ==
    LET rows == {[key |-> i, id |-> inserted[i].id,
                  timestamp |-> inserted[i].timestamp] : i \in DOMAIN inserted}
    IN  {r \in rows : Cardinality({x \in rows : IndexBefore(r, x)}) < n}

\* C10: once initialized and quiescent after n successful inserts, no
\* clear() and no failed eviction call, the store holds exactly the
\* min(n, maxLogs) entries with the newest timestamps.
C10_StoreHoldsNewest ==
    (initialized /\ Quiescent /\ ~cleared /\ ~trimFailed) =>
        store = NewestInserted(Min(Len(inserted), idbMaxLogs))

(***************************************************************************)
(* Properties of the HTTP transport: dispose() and the request.            *)
(***************************************************************************)
\* dispose() has stopped a timer: only dispose() unsets it
Disposed == isClient /\ ~timer

\* the request that ended last carried every entry logged so far while the
\* batch size was out of log()'s reach: it was begun by dispose(), or by a
\* flush or tick that dispose() could have stood for
FinalAttemptEnded ==
    /\ Disposed
    /\ op \in {"ok", "status", "reject"}
    /\ logged # <<>>
    /\ settled = logged
    /\ batchSize > Len(logged)

\* C26: dispose() stops the timer, and the callback runs only while the timer
\* is set; dispose() leaves nothing in the buffer, having sent what was
\* there; and when its send attempt fails, by a rejection or by a failure
\* status, the entries of the attempt are in the buffer.
C26_DisposeFinalSend ==
    /\ op = "dispose" => ~timer /\ batch = <<>>
    /\ op = "timer" => timer
    /\ FinalAttemptEnded /\ op \in {"status", "reject"} =>
           \A i \in DOMAIN settled : InBuffer(settled[i].id) = 1


\* C31: the entries reach the endpoint in the order they were logged: of two
\* requests answered with an ok status, the one answered later carries no
\* entry logged before an entry of the one answered earlier
C31_DeliveryOrder ==
    \A i, j \in DOMAIN delivered :
        i < j =>
            \A a \in DOMAIN delivered[i], b \in DOMAIN delivered[j] :
                delivered[i][a].id < delivered[j][b].id

(***************************************************************************)
(* Properties of the Logger.                                               *)
(*                                                                         *)
(* lastCall describes a log call only while nothing else has happened      *)
(* since, so the Logger and the global context of the state are those the  *)
(* call ran with.                                                          *)
(***************************************************************************)
\* the transports registered on the Logger of the last log call
Registered == arrays[loggers[lastCall.logger].transports]

\* C11: in a log call that passes the severity filter, log() is called on
\* every registered transport, also on those registered after one whose
\* log() raised.
C11_FanOutIsolation ==
    lastCall.passed => Len(lastCall.deliveries) = Len(Registered)

\* the rank of a level in the order debug < info < warn < error
Severity(level) ==
    CASE level = "debug" -> 0
      [] level = "info" -> 1
      [] level = "warn" -> 2
      [] level = "error" -> 3

\* C12: a log call at level L on a Logger with minimum level M reaches the
\* transports exactly when L is at or above M, and a call below M invokes
\* neither the formatter nor a transport.
C12_SeverityFilter ==
    lastCall.logger # 0 =>
        LET M == loggers[lastCall.logger].minLevel
            L == lastCall.level
        IN  /\ Len(Registered) > 0 =>
                (Len(lastCall.deliveries) > 0 <=> Severity(L) >= Severity(M))
            /\ Severity(L) < Severity(M) =>
                lastCall.formats = 0 /\ lastCall.deliveries = <<>>
            /\ Severity(L) >= Severity(M) => lastCall.formats = 1

C12_Witness ==
    /\ lgOp.name = "log"
    /\ loggers[lastCall.logger].minLevel = "warn"
    /\ lastCall.level = "info"
    /\ lastCall.deliveries = <<>>

\* the context a record of a Logger with overlay own carries when the global
\* context is global: every key of either, with the overlay's value on a key
\* of both
Carried(global, own) ==
    [k \in DOMAIN global \cup DOMAIN own |->
        IF k \in DOMAIN own THEN own[k] ELSE global[k]]

\* C13: the context handed to the formatter and to every transport is the
\* global context of the time of the call overlaid by the Logger's overlay,
\* and no context at all when that is empty.
C13_ContextMergePrecedence ==
    lastCall.passed =>
        LET expected == Carried(contextData, loggers[lastCall.logger].context)
        IN  \A i \in DOMAIN lastCall.deliveries :
                LET d == lastCall.deliveries[i]
                IN  /\ d.context = d.message.context
                    /\ d.context.defined <=> DOMAIN expected # {}
                    /\ d.context.defined => d.context.value = expected

C13_Witness ==
    /\ lastCall.passed
    /\ Len(lastCall.deliveries) > 0
    /\ DOMAIN contextData = {"a", "b"}
    /\ DOMAIN loggers[lastCall.logger].context = {"a"}
    /\ contextData["a"] # loggers[lastCall.logger].context["a"]

\* C14: withContext and withoutContext leave the receiver as it was (overlay,
\* prefix, formatter, minimum level, and so the context of its records), and
\* return another Logger; the overlay of the one withContext returns is the
\* receiver's overlay with the extra pairs, the extra value on a shared key.
C14_ReceiverNotMutated ==
    lgOp.name \in {"withContext", "withoutContext"} =>
        LET x == lgOp.receiver
            y == lgOp.result
        IN  /\ y # x
            /\ loggers[x] = lgOp.was
            /\ Carried(contextData, loggers[x].context)
                   = Carried(lgOp.wasData, lgOp.was.context)
            /\ lgOp.name = "withContext" =>
                   loggers[y].context = Carried(lgOp.was.context, lgOp.context)

C14_Witness ==
    /\ lgOp.name = "withContext"
    /\ DOMAIN lgOp.was.context = {"a", "b"}
    /\ DOMAIN lgOp.context = {"a"}
    /\ lgOp.context["a"] # lgOp.was.context["a"]

\* C15: the records of the Logger returned by X.withoutContext(K) carry no
\* key of K and exactly the other pairs that X's records carry, whatever the
\* global context holds.
C15_WithoutContextRemoves ==
    lgOp.name = "withoutContext" =>
        LET ofX == Carried(lgOp.wasData, lgOp.was.context)
            ofY == Carried(contextData, loggers[lgOp.result].context)
        IN  /\ DOMAIN ofY \cap lgOp.keys = {}
            /\ ofY = [k \in DOMAIN ofX \ lgOp.keys |-> ofX[k]]

\* C16: a log call that passes the severity filter and in which no transport
\* raises calls log() once on each registered transport, in registration
\* order, each time with the same rendered message, the caller's metadata
\* and the same context; the formatter runs once.
C16_FanOutOrder ==
    lastCall.passed /\ ~lastCall.raised =>
        /\ lastCall.formats = 1
        /\ Len(lastCall.deliveries) = Len(Registered)
        /\ \A i \in DOMAIN lastCall.deliveries :
               LET d == lastCall.deliveries[i]
               IN  /\ d.transport = Registered[i]
                   /\ d.level = lastCall.level
                   /\ d.metadata = lastCall.metadata
                   /\ d.message = lastCall.deliveries[1].message
                   /\ d.context = lastCall.deliveries[1].context

C16_Witness ==
    /\ lastCall.passed
    /\ ~lastCall.raised
    /\ Len(lastCall.deliveries) = 2
    /\ lastCall.deliveries[1].transport # lastCall.deliveries[2].transport
    /\ lastCall.metadata # Undefined

(***************************************************************************)
(* Properties of the manager.                                              *)
(***************************************************************************)
\* no override config: none, or an empty one
NoOverride(config) == ~config.given \/ config.pairs = <<>>

\* two configs hold the same keys with the same values
SameContent(c1, c2) == Range(c1.pairs) = Range(c2.pairs)

\* C18: the Logger stack(S) returns has, for each driver of S, the transport
\* of that driver in its transports array.
C18_StackFanOut ==
    mgrOp.name = "stack" /\ ~mgrOp.raised =>
        \A d \in Range(stacks[mgrOp.stack]) :
            \E t \in Range(objects[mgrOp.returned].transports) :
                t.kind = FactoryTransport(d)

\* C19: between two clearInstances(), two instance() calls with the same name
\* return the same Logger when neither has an override config, different
\* Loggers when exactly one has, and the same Logger when both have override
\* configs of equal content, in whatever order the keys are written.
C19_CacheIdentity ==
    \A i, j \in DOMAIN mgrCalls :
        LET ci == mgrCalls[i]
            cj == mgrCalls[j]
        IN  ci.name = cj.name =>
                /\ NoOverride(ci.config) /\ NoOverride(cj.config) =>
                       ci.returned = cj.returned
                /\ NoOverride(ci.config) /\ ~NoOverride(cj.config) =>
                       ci.returned # cj.returned
                /\ /\ ~NoOverride(ci.config)
                   /\ ~NoOverride(cj.config)
                   /\ SameContent(ci.config, cj.config)
                   => ci.returned = cj.returned

C19_Witness ==
    /\ Len(mgrCalls) = 2
    /\ mgrCalls[1].name = mgrCalls[2].name
    /\ mgrCalls[1].config # mgrCalls[2].config
    /\ ~NoOverride(mgrCalls[1].config)
    /\ SameContent(mgrCalls[1].config, mgrCalls[2].config)
    /\ mgrCalls[1].returned = mgrCalls[2].returned

\* C20: two instance() calls with the same name and override configs of
\* different content return different Loggers, each made from the config of
\* its call.
C20_DifferingConfigsDistinct ==
    \A i, j \in DOMAIN mgrCalls :
        LET ci == mgrCalls[i]
            cj == mgrCalls[j]
        IN  /\ ci.name = cj.name
            /\ ~NoOverride(ci.config)
            /\ ~NoOverride(cj.config)
            /\ ~SameContent(ci.config, cj.config)
            => /\ ci.returned # cj.returned
               /\ objects[ci.returned].config = Range(ci.config.pairs)
               /\ objects[cj.returned].config = Range(cj.config.pairs)

\* C22: stack(name) raises exactly when no stack was created under the name
\* (under "default" when no name is given), and then returns no Logger and
\* leaves the cache, the Loggers with their transports, and the stacks as
\* it found them.
C22_UnknownStackRaises ==
    mgrOp.name = "stack" =>
        /\ mgrOp.raised <=>
               (IF mgrOp.arg = Undefined THEN "default" ELSE mgrOp.arg) \notin DOMAIN stacks
        /\ mgrOp.raised =>
               /\ mgrOp.returned = 0
               /\ mgrOp.was = [instances |-> instances, objects |-> objects,
                               stacks |-> stacks]

C22_Witness ==
    /\ mgrOp.name = "stack"
    /\ mgrOp.raised
    /\ mgrOp.arg = "other"
    /\ "default" \in DOMAIN stacks
    /\ Len(objects) > 0

(***************************************************************************)
(* Properties of the drivers.                                              *)
(***************************************************************************)
\* the transports of the Logger the last operation returned
Returned == Range(objects[mgrOp.returned].transports)

\* the transports the program has constructed and can still reach
Existing ==
    Range(mgrOp.made) \cup UNION {Range(objects[i].transports) : i \in DOMAIN objects}

\* C21: instance(name) for a name no driver is registered under raises, and
\* caches nothing under the name.
C21_UnknownDriverRaises ==
    mgrOp.name = "instance" /\ mgrOp.arg \notin BuiltInDrivers =>
        /\ mgrOp.raised
        /\ mgrOp.key \notin DOMAIN instances

\* C23: createHttpDriver with a non-empty endpoint raises nothing and returns
\* a Logger that has an HTTP transport with the endpoint, headers, batchSize
\* and batchInterval of the call.
C23_CreateHttpDriver ==
    /\ mgrOp.name = "createDriver"
    /\ mgrOp.arg = "http"
    /\ ~Falsy(mgrOp.made[2].options.endpoint)
    => /\ ~mgrOp.raised
       /\ \E t \in Returned :
              t.kind = "HttpTransport" /\ t.options = mgrOp.made[2].options

\* C24: no HTTP transport without an endpoint exists, and the operation that
\* was given none raised.
C24_MissingEndpointFailsFast ==
    /\ \A t \in Existing : t.kind = "HttpTransport" => ~Falsy(t.options.endpoint)
    /\ /\ mgrOp.name = "instance"
       /\ mgrOp.arg = "http"
       /\ "endpoint" \notin Range(mgrOp.key)
       => mgrOp.raised

\* C25: the Logger createMemoryDriver or createLocalStorageDriver returns has
\* a transport of that kind with the maxLogs and the key the call gave.
C25_CreateDriverHonoursOptions ==
    /\ mgrOp.name = "createDriver"
    /\ mgrOp.arg \in {"memory", "localStorage"}
    /\ ~mgrOp.raised
    => \E t \in Returned :
           /\ t.kind = FactoryTransport(mgrOp.arg)
           /\ \A f \in {"maxLogs", "key"} :
                  mgrOp.made[2].options[f] # Missing =>
                      t.options[f] = mgrOp.made[2].options[f]

(***************************************************************************)
(* Properties of the transports' boundary.                                 *)
(***************************************************************************)
\* C17: whatever fails inside a built-in transport, log() returns normally:
\* no exception leaves log() and no promise is rejected without a handler.
C17_TransportBoundary == ~bThrown /\ ~bUnhandled

C17_Witness ==
    /\ bKind = "indexedDB"
    /\ bLogs > 0
    /\ ~bReady
    /\ bTasks = <<>>
    /\ bReported

(***************************************************************************)
(* Properties of the request.                                              *)
(***************************************************************************)
\* C27: the request is a POST to the endpoint of the constructor, its body the
\* JSON text of the batch, and its headers the default Content-Type header
\* with the caller's headers laid over it.
C27_WireFormat ==
    fnResult # <<>> =>
        /\ fnResult[1].method = "POST"
        /\ fnResult[1].url = fnArgs.endpoint
        /\ JSONparse(fnResult[1].body) = fnArgs.batch
        /\ fnResult[1].headers = Spread(DefaultHeaders, fnArgs.headers.map)

(***************************************************************************)
(* Properties of getLogs of the IndexedDB transport.                       *)
(***************************************************************************)
\* the rows of the store that pass the level and date filters of the options
Matching(rows, options) ==
    {r \in rows :
        /\ options.level # Undefined => r.level = options.level
        /\ options.fromDate # NoDate => r.timestamp >= options.fromDate
        /\ options.toDate # NoDate => r.timestamp <= options.toDate}

\* a result holds the n newest of the matching rows, newest first: rows of
\* the matching set without a repeat, min(n, matching) of them, timestamps
\* never rising, and no row left out newer than a row returned
NewestFirst(result, matching, n) ==
    /\ Len(result) = Min(n, Cardinality(matching))
    /\ \A i \in DOMAIN result : result[i] \in matching
    /\ \A i, j \in DOMAIN result :
          i < j => result[i].timestamp >= result[j].timestamp /\ result[i] # result[j]
    /\ \A r \in matching :
          (\A i \in DOMAIN result : result[i] # r) =>
              \A i \in DOMAIN result : result[i].timestamp >= r.timestamp

\* C29: on a Ready transport getLogs(options) returns the matching entries
\* newest first, and with limit = n the n entries with the newest timestamps
\* among the matching ones (getRecentLogs(n): the n most recent logs)
C29_GetLogsNewest ==
    fnResult # <<>> /\ fnArgs.ready =>
        LET matching == Matching(fnArgs.rows, fnArgs.options)
            n == IF fnArgs.options.limit = NoLimit
                 THEN Cardinality(matching)
                 ELSE fnArgs.options.limit
        IN  NewestFirst(fnResult[1], matching, n)

(***************************************************************************)
(* Properties of the IndexedDB transport outside the browser.              *)
(***************************************************************************)
\* C28: without the store (isClient false) every operation is a silent
\* no-op, whatever was called: log() neither queues nor stores an entry nor
\* calls the database, clear() calls nothing, getLogs() returns [] for every
\* options, and the transport is never initializing or initialized
C28_UnavailableNoOp ==
    ~idbIsClient =>
        /\ queue = <<>>
        /\ queueCopy = <<>>
        /\ store = {}
        /\ pending = <<>>
        /\ everQueued = {}
        /\ inserted = <<>>
        /\ ~initialized
        /\ initPc = "none"
        /\ \A options \in GetLogsOptions :
              getLogs(idbIsClient, initialized, store, options) = <<>>

C28_Witness == ~idbIsClient /\ idbCalls = MaxIdbLog /\ cleared

\* C34: the entries are inserted into the store in the order they were
\* logged: of two entries inserted, the one logged first was inserted first
\* and has the smaller key
C34_InsertionFifo ==
    \A i, j \in DOMAIN inserted :
        inserted[i].id < inserted[j].id => i < j

(***************************************************************************)
(* Properties of the Context Store.                                        *)
(***************************************************************************)
\* C30: after any sequence of set, add, remove and clear the store holds, and
\* get() returns, the map the calls give (set replaces all, add overrides key
\* by key, remove deletes the given keys, clear empties), whatever the caller
\* did in between to the objects it passed to set and add or got from get
C30_ContextStore ==
    /\ fnArgs.heap[fnArgs.contextData].live
    /\ fnArgs.heap[fnArgs.contextData].map = fnResult[1].expected
    /\ fnResult[1].name = "get" => fnResult[1].returned = fnResult[1].expected

C30_Witness ==
    /\ fnResult[1].name = "callerMutate"
    /\ fnResult[1].expected = [k \in {"a", "b"} |-> IF k = "a" THEN 2 ELSE 1]
    /\ \E h \in fnArgs.held : fnArgs.heap[h].map = [k \in {"a"} |-> 1]

(***************************************************************************)
(* Properties of flush() of the HTTP transport.                            *)
(***************************************************************************)
\* C32: when the promise of flush() resolves, every entry logged before the
\* call was delivered by a request answered ok or is in the buffer, and none
\* is in a request that has not settled
C32_FlushSettles ==
    fnResult # <<>> =>
        \A id \in 1..fnResult[1].before :
            /\ id \in fnResult[1].delivered \cup fnResult[1].buffered
            /\ id \notin fnResult[1].unfinished

(***************************************************************************)
(* Liveness of the HTTP transport.                                         *)
(***************************************************************************)
\* a request fails: its fetch() rejects, or is answered with a failure status
HttpFails == HttpReject \/ HttpResolveStatus

\* the entry of the id-th log() call is in the body of a request answered ok
DeliveredId(id) == id \in InBodies(delivered)

\* C33: while the timer is set, if from some time on no request fails, every
\* entry logged is eventually in a request answered with an ok status
C33_EventuallyDelivered ==
    ([]timer /\ <>[][~HttpFails]_vars) =>
        \A id \in 1..MaxLog : (Len(logged) >= id) ~> DeliveredId(id)

(***************************************************************************)
(* Properties of the localStorage transport with a failing storage.        *)
(***************************************************************************)
\* C35: a log() or a clear() in which the read of the storage, the parse of
\* the stored text or the write fails leaves the storage as it found it
C35_FailureLeavesStorage ==
    fnResult # <<>> /\ fnResult[1].failed => localStorage = fnResult[1].was

\* a log() failed at its read or its write with a list of two entries stored
C35_Witness ==
    /\ fnResult # <<>>
    /\ fnResult[1].name = "log"
    /\ fnResult[1].failed
    /\ lsKey \in DOMAIN localStorage
    /\ Parses(localStorage[lsKey])
    /\ Len(localStorage[lsKey]) >= 2

Reconfigurations == {"addTransport", "clearTransports", "setMinLevel", "setFormatter"}

\* the transports Logger i dispatches to
TransportsOf(i) == arrays[loggers[i].transports]

\* the same in the next state
TransportsOfNext(i) == arrays'[loggers'[i].transports]

\* C39 as stated: an addTransport, clearTransports, setMinLevel or
\* setFormatter call on a Logger leaves the transports, the minimum level
\* and the formatter of every other Logger as they were
C39_DerivedFrame ==
    [][lgOp'.name \in Reconfigurations =>
          \A i \in DOMAIN loggers \ {lgOp'.receiver} :
              /\ TransportsOfNext(i) = TransportsOf(i)
              /\ loggers'[i].minLevel = loggers[i].minLevel
              /\ loggers'[i].formatter = loggers[i].formatter]_vars

\* C39: a Logger derived with withContext or withoutContext has its
\* origin's array of transports.  A clearTransports, setMinLevel or
\* setFormatter call on a Logger leaves the transports, the minimum level
\* and the formatter of every other Logger as they were; an addTransport
\* call leaves the minimum level and the formatter of every other Logger as
\* they were, and the transports of those that do not have the receiver's
\* array, while those that have it dispatch to the added transport too
C39_DerivedSharesArray ==
    [][/\ lgOp'.name \in {"withContext", "withoutContext"} =>
              loggers'[lgOp'.result].transports = loggers[lgOp'.receiver].transports
       /\ lgOp'.name \in Reconfigurations =>
              \A i \in DOMAIN loggers \ {lgOp'.receiver} :
                  /\ loggers'[i].minLevel = loggers[i].minLevel
                  /\ loggers'[i].formatter = loggers[i].formatter
                  /\ IF /\ lgOp'.name = "addTransport"
                        /\ loggers[i].transports = loggers[lgOp'.receiver].transports
                     THEN /\ TransportsOfNext(i) = TransportsOfNext(lgOp'.receiver)
                          /\ Len(TransportsOfNext(i)) = Len(TransportsOf(i)) + 1
                     ELSE TransportsOfNext(i) = TransportsOf(i)]_vars

\* a transport was added to a Logger whose array another Logger has, after
\* the two had been given different minimum levels and formatters
C39_Witness ==
    /\ lgOp.name = "addTransport"
    /\ \E i \in DOMAIN loggers \ {lgOp.receiver} :
           /\ loggers[i].transports = loggers[lgOp.receiver].transports
           /\ loggers[i].minLevel # loggers[lgOp.receiver].minLevel
           /\ loggers[i].formatter # loggers[lgOp.receiver].formatter
           /\ Len(TransportsOf(i)) = MaxTransports
(***************************************************************************)
(* Properties of clear() on the IndexedDB transport.                       *)
(***************************************************************************)
\* C40: once a clear() call has returned, no entry logged before that call
\* is in the store
C40_ClearEmpties ==
    fnResult # <<>> => \A r \in store : r.id > fnResult[1]
(***************************************************************************)
(* Properties of stack().                                                  *)
(***************************************************************************)
\* C37: every stack() call returns: its loops over the drivers and over
\* their transports end
C37_StackTerminates == (fnArgs.pc = "for") ~> (fnArgs.pc = "idle")

\* C38: every stack() call returns a Logger with the same list of
\* transports, and the Logger of the stack's first driver has after the call
\* the transports it had before
C38_StackIdempotent ==
    \A k \in DOMAIN fnResult :
        /\ fnResult[k].transports = fnResult[1].transports
        /\ fnResult[k].transports = fnResult[k].before

====
